---- MODULE Spec2Model ----
(***************************************************************************)
(* Employee identifier allocation and duplicate detection of the ID-card   *)
(* backend (src/server.js, the MongoDB service).                           *)
(*                                                                         *)
(* JavaScript strings are sequences of UTF-16 code units (naturals);       *)
(* null and undefined are the two sentinels NULL and UNDEF.  Every request *)
(* handler is an async function: each action below is one run-to-completion*)
(* segment of a handler, from the resolution of one await to the next.     *)
(***************************************************************************)
EXTENDS Integers, Sequences, FiniteSets, TLC

\* ------------------------------------------------------------------------
\* JavaScript values
\* ------------------------------------------------------------------------
NULL == << -1 >>
UNDEF == << -2 >>

\* !v  is false exactly for a non-empty string (null, undefined, "" are falsy)
Truthy(v) == v # NULL /\ v # UNDEF /\ v # << >>

\* destructuring default: `x = d` applies only when the property is undefined
Default(v, d) == IF v = UNDEF THEN d ELSE v

\* v || null
OrNull(v) == IF Truthy(v) THEN v ELSE NULL

\* string literals used by the model, as UTF-16 code units
COMPANY_CODE == <<65, 82, 84>>                                  \* "ART"
sAnn == <<65, 110, 110>>                                        \* "Ann"
sANN == <<65, 78, 78>>                                          \* "ANN"
sLee == <<76, 101, 101>>                                        \* "Lee"
sLEE == <<76, 69, 69>>                                          \* "LEE"
sBob == <<66, 111, 98>>                                         \* "Bob"
sEngineering == <<69, 110, 103, 105, 110, 101, 101, 114, 105, 110, 103>>
sAb == <<97, 98>>                                               \* "ab"
sMailLower == <<97, 64, 98>>                                    \* "a@b"
sMailUpper == <<65, 64, 98>>                                    \* "A@b"
sPhone == <<53>>                                                \* "5"
sDob == <<49, 47, 49>>                                          \* "1/1"
sPid == <<112>>                                                 \* "p"
sUrl == <<117>>                                                 \* "u"
sBogusId == <<120>>                                             \* "x"

RECURSIVE Concat(_)
Concat(ss) == IF ss = << >> THEN << >> ELSE Head(ss) \o Concat(Tail(ss))

Hyphen == <<45>>

\* s.split("-")
RECURSIVE SplitFrom(_, _, _)
SplitFrom(s, i, cur) ==
    IF i > Len(s) THEN <<cur>>
    ELSE IF s[i] = 45 THEN <<cur>> \o SplitFrom(s, i + 1, << >>)
    ELSE SplitFrom(s, i + 1, Append(cur, s[i]))
Split(s) == SplitFrom(s, 1, << >>)

IsDigit(c) == c >= 48 /\ c <= 57

\* String(n) for a non-negative integer n
RECURSIVE ToDecimal(_)
ToDecimal(n) ==
    IF n < 10 THEN <<48 + n>> ELSE Append(ToDecimal(n \div 10), 48 + (n % 10))

\* s.padStart(width, "0")
RECURSIVE PadStart(_, _)
PadStart(s, width) == IF Len(s) >= width THEN s ELSE PadStart(<<48>> \o s, width)

\* s.padEnd(width, "X")
RECURSIVE PadEndX(_, _)
PadEndX(s, width) == IF Len(s) >= width THEN s ELSE PadEndX(Append(s, 88), width)

\* s.slice(0, n)
Slice0(s, n) == IF Len(s) <= n THEN s ELSE SubSeq(s, 1, n)

\* s.slice(-n)
SliceLast(s, n) == IF Len(s) <= n THEN s ELSE SubSeq(s, Len(s) - n + 1, Len(s))

\* parseInt(s, 10): the longest prefix of decimal digits; NaN is modelled
\* as -1 (no sign or leading blank occurs in a serial field)
RECURSIVE ParseDigits(_, _, _)
ParseDigits(s, i, acc) ==
    IF i > Len(s) \/ ~IsDigit(s[i]) THEN acc
    ELSE ParseDigits(s, i + 1, acc * 10 + (s[i] - 48))
ParseInt(s) == IF s = << >> \/ ~IsDigit(s[1]) THEN -1 ELSE ParseDigits(s, 1, 0)

\* UTF-16: surrogate code units and the code point of a surrogate pair
IsHigh(c) == c >= 55296 /\ c <= 56319
IsLow(c) == c >= 56320 /\ c <= 57343
CodePointOf(hi, lo) == 65536 + (hi - 55296) * 1024 + (lo - 56320)
UnitsOf(cp) ==
    IF cp < 65536 THEN <<cp>>
    ELSE <<55296 + ((cp - 65536) \div 1024), 56320 + ((cp - 65536) % 1024)>>

\* the image of code point cp under a table of runs <<first, last, stride, offset>>
RunImage(table, cp) ==
    LET hits == {r \in table : cp >= r[1] /\ cp <= r[2] /\ (cp - r[1]) % r[3] = 0}
    IN  IF hits = {} THEN cp ELSE cp + (CHOOSE r \in hits : TRUE)[4]

\* Unicode uppercase mappings of the code points above ASCII that map to one
\* code point (UnicodeData, Unicode 17), as runs
UpperRuns ==
    {<<181, 181, 1, 743>>, <<224, 246, 1, -32>>, <<248, 254, 1, -32>>, <<255, 255, 1, 121>>,
     <<257, 303, 2, -1>>, <<305, 305, 1, -232>>, <<307, 311, 2, -1>>, <<314, 328, 2, -1>>,
     <<331, 375, 2, -1>>, <<378, 382, 2, -1>>, <<383, 383, 1, -300>>, <<384, 384, 1, 195>>,
     <<387, 389, 2, -1>>, <<392, 392, 1, -1>>, <<396, 396, 1, -1>>, <<402, 402, 1, -1>>,
     <<405, 405, 1, 97>>, <<409, 409, 1, -1>>, <<410, 410, 1, 163>>, <<411, 411, 1, 42561>>,
     <<414, 414, 1, 130>>, <<417, 421, 2, -1>>, <<424, 424, 1, -1>>, <<429, 429, 1, -1>>,
     <<432, 432, 1, -1>>, <<436, 438, 2, -1>>, <<441, 441, 1, -1>>, <<445, 445, 1, -1>>,
     <<447, 447, 1, 56>>, <<453, 453, 1, -1>>, <<454, 454, 1, -2>>, <<456, 456, 1, -1>>,
     <<457, 457, 1, -2>>, <<459, 459, 1, -1>>, <<460, 460, 1, -2>>, <<462, 476, 2, -1>>,
     <<477, 477, 1, -79>>, <<479, 495, 2, -1>>, <<498, 498, 1, -1>>, <<499, 499, 1, -2>>,
     <<501, 501, 1, -1>>, <<505, 543, 2, -1>>, <<547, 563, 2, -1>>, <<572, 572, 1, -1>>,
     <<575, 576, 1, 10815>>, <<578, 578, 1, -1>>, <<583, 591, 2, -1>>, <<592, 592, 1, 10783>>,
     <<593, 593, 1, 10780>>, <<594, 594, 1, 10782>>, <<595, 595, 1, -210>>, <<596, 596, 1, -206>>,
     <<598, 599, 1, -205>>, <<601, 601, 1, -202>>, <<603, 603, 1, -203>>, <<604, 604, 1, 42319>>,
     <<608, 608, 1, -205>>, <<609, 609, 1, 42315>>, <<611, 611, 1, -207>>, <<612, 612, 1, 42343>>,
     <<613, 613, 1, 42280>>, <<614, 614, 1, 42308>>, <<616, 616, 1, -209>>, <<617, 617, 1, -211>>,
     <<618, 618, 1, 42308>>, <<619, 619, 1, 10743>>, <<620, 620, 1, 42305>>, <<623, 623, 1, -211>>,
     <<625, 625, 1, 10749>>, <<626, 626, 1, -213>>, <<629, 629, 1, -214>>, <<637, 637, 1, 10727>>,
     <<640, 640, 1, -218>>, <<642, 642, 1, 42307>>, <<643, 643, 1, -218>>, <<647, 647, 1, 42282>>,
     <<648, 648, 1, -218>>, <<649, 649, 1, -69>>, <<650, 651, 1, -217>>, <<652, 652, 1, -71>>,
     <<658, 658, 1, -219>>, <<669, 669, 1, 42261>>, <<670, 670, 1, 42258>>, <<837, 837, 1, 84>>,
     <<881, 883, 2, -1>>, <<887, 887, 1, -1>>, <<891, 893, 1, 130>>, <<940, 940, 1, -38>>,
     <<941, 943, 1, -37>>, <<945, 961, 1, -32>>, <<962, 962, 1, -31>>, <<963, 971, 1, -32>>,
     <<972, 972, 1, -64>>, <<973, 974, 1, -63>>, <<976, 976, 1, -62>>, <<977, 977, 1, -57>>,
     <<981, 981, 1, -47>>, <<982, 982, 1, -54>>, <<983, 983, 1, -8>>, <<985, 1007, 2, -1>>,
     <<1008, 1008, 1, -86>>, <<1009, 1009, 1, -80>>, <<1010, 1010, 1, 7>>, <<1011, 1011, 1, -116>>,
     <<1013, 1013, 1, -96>>, <<1016, 1016, 1, -1>>, <<1019, 1019, 1, -1>>, <<1072, 1103, 1, -32>>,
     <<1104, 1119, 1, -80>>, <<1121, 1153, 2, -1>>, <<1163, 1215, 2, -1>>, <<1218, 1230, 2, -1>>,
     <<1231, 1231, 1, -15>>, <<1233, 1327, 2, -1>>, <<1377, 1414, 1, -48>>, <<4304, 4346, 1, 3008>>,
     <<4349, 4351, 1, 3008>>, <<5112, 5117, 1, -8>>, <<7296, 7296, 1, -6254>>, <<7297, 7297, 1, -6253>>,
     <<7298, 7298, 1, -6244>>, <<7299, 7300, 1, -6242>>, <<7301, 7301, 1, -6243>>, <<7302, 7302, 1, -6236>>,
     <<7303, 7303, 1, -6181>>, <<7304, 7304, 1, 35266>>, <<7306, 7306, 1, -1>>, <<7545, 7545, 1, 35332>>,
     <<7549, 7549, 1, 3814>>, <<7566, 7566, 1, 35384>>, <<7681, 7829, 2, -1>>, <<7835, 7835, 1, -59>>,
     <<7841, 7935, 2, -1>>, <<7936, 7943, 1, 8>>, <<7952, 7957, 1, 8>>, <<7968, 7975, 1, 8>>,
     <<7984, 7991, 1, 8>>, <<8000, 8005, 1, 8>>, <<8017, 8023, 2, 8>>, <<8032, 8039, 1, 8>>,
     <<8048, 8049, 1, 74>>, <<8050, 8053, 1, 86>>, <<8054, 8055, 1, 100>>, <<8056, 8057, 1, 128>>,
     <<8058, 8059, 1, 112>>, <<8060, 8061, 1, 126>>, <<8112, 8113, 1, 8>>, <<8126, 8126, 1, -7205>>,
     <<8144, 8145, 1, 8>>, <<8160, 8161, 1, 8>>, <<8165, 8165, 1, 7>>, <<8526, 8526, 1, -28>>,
     <<8560, 8575, 1, -16>>, <<8580, 8580, 1, -1>>, <<9424, 9449, 1, -26>>, <<11312, 11359, 1, -48>>,
     <<11361, 11361, 1, -1>>, <<11365, 11365, 1, -10795>>, <<11366, 11366, 1, -10792>>, <<11368, 11372, 2, -1>>,
     <<11379, 11379, 1, -1>>, <<11382, 11382, 1, -1>>, <<11393, 11491, 2, -1>>, <<11500, 11502, 2, -1>>,
     <<11507, 11507, 1, -1>>, <<11520, 11557, 1, -7264>>, <<11559, 11559, 1, -7264>>, <<11565, 11565, 1, -7264>>,
     <<42561, 42605, 2, -1>>, <<42625, 42651, 2, -1>>, <<42787, 42799, 2, -1>>, <<42803, 42863, 2, -1>>,
     <<42874, 42876, 2, -1>>, <<42879, 42887, 2, -1>>, <<42892, 42892, 1, -1>>, <<42897, 42899, 2, -1>>,
     <<42900, 42900, 1, 48>>, <<42903, 42921, 2, -1>>, <<42933, 42947, 2, -1>>, <<42952, 42954, 2, -1>>,
     <<42957, 42971, 2, -1>>, <<42998, 42998, 1, -1>>, <<43859, 43859, 1, -928>>, <<43888, 43967, 1, -38864>>,
     <<65345, 65370, 1, -32>>, <<66600, 66639, 1, -40>>, <<66776, 66811, 1, -40>>, <<66967, 67003, 2, -39>>,
     <<66968, 66976, 2, -39>>, <<66980, 66992, 2, -39>>, <<66996, 67000, 2, -39>>, <<67004, 67004, 1, -39>>,
     <<68800, 68850, 1, -64>>, <<68976, 68997, 1, -32>>, <<71872, 71903, 1, -32>>, <<93792, 93823, 1, -32>>,
     <<93883, 93907, 1, -27>>, <<125218, 125251, 1, -34>>}

\* the code points whose uppercase form is several code points (SpecialCasing)
UpperMulti ==
    {<<223, <<83, 83>> >>, <<329, <<700, 78>> >>, <<496, <<74, 780>> >>,
     <<912, <<921, 776, 769>> >>, <<944, <<933, 776, 769>> >>, <<1415, <<1333, 1362>> >>,
     <<7830, <<72, 817>> >>, <<7831, <<84, 776>> >>, <<7832, <<87, 778>> >>,
     <<7833, <<89, 778>> >>, <<7834, <<65, 702>> >>, <<8016, <<933, 787>> >>,
     <<8018, <<933, 787, 768>> >>, <<8020, <<933, 787, 769>> >>, <<8022, <<933, 787, 834>> >>,
     <<8064, <<7944, 921>> >>, <<8065, <<7945, 921>> >>, <<8066, <<7946, 921>> >>,
     <<8067, <<7947, 921>> >>, <<8068, <<7948, 921>> >>, <<8069, <<7949, 921>> >>,
     <<8070, <<7950, 921>> >>, <<8071, <<7951, 921>> >>, <<8072, <<7944, 921>> >>,
     <<8073, <<7945, 921>> >>, <<8074, <<7946, 921>> >>, <<8075, <<7947, 921>> >>,
     <<8076, <<7948, 921>> >>, <<8077, <<7949, 921>> >>, <<8078, <<7950, 921>> >>,
     <<8079, <<7951, 921>> >>, <<8080, <<7976, 921>> >>, <<8081, <<7977, 921>> >>,
     <<8082, <<7978, 921>> >>, <<8083, <<7979, 921>> >>, <<8084, <<7980, 921>> >>,
     <<8085, <<7981, 921>> >>, <<8086, <<7982, 921>> >>, <<8087, <<7983, 921>> >>,
     <<8088, <<7976, 921>> >>, <<8089, <<7977, 921>> >>, <<8090, <<7978, 921>> >>,
     <<8091, <<7979, 921>> >>, <<8092, <<7980, 921>> >>, <<8093, <<7981, 921>> >>,
     <<8094, <<7982, 921>> >>, <<8095, <<7983, 921>> >>, <<8096, <<8040, 921>> >>,
     <<8097, <<8041, 921>> >>, <<8098, <<8042, 921>> >>, <<8099, <<8043, 921>> >>,
     <<8100, <<8044, 921>> >>, <<8101, <<8045, 921>> >>, <<8102, <<8046, 921>> >>,
     <<8103, <<8047, 921>> >>, <<8104, <<8040, 921>> >>, <<8105, <<8041, 921>> >>,
     <<8106, <<8042, 921>> >>, <<8107, <<8043, 921>> >>, <<8108, <<8044, 921>> >>,
     <<8109, <<8045, 921>> >>, <<8110, <<8046, 921>> >>, <<8111, <<8047, 921>> >>,
     <<8114, <<8122, 921>> >>, <<8115, <<913, 921>> >>, <<8116, <<902, 921>> >>,
     <<8118, <<913, 834>> >>, <<8119, <<913, 834, 921>> >>, <<8124, <<913, 921>> >>,
     <<8130, <<8138, 921>> >>, <<8131, <<919, 921>> >>, <<8132, <<905, 921>> >>,
     <<8134, <<919, 834>> >>, <<8135, <<919, 834, 921>> >>, <<8140, <<919, 921>> >>,
     <<8146, <<921, 776, 768>> >>, <<8147, <<921, 776, 769>> >>, <<8150, <<921, 834>> >>,
     <<8151, <<921, 776, 834>> >>, <<8162, <<933, 776, 768>> >>, <<8163, <<933, 776, 769>> >>,
     <<8164, <<929, 787>> >>, <<8166, <<933, 834>> >>, <<8167, <<933, 776, 834>> >>,
     <<8178, <<8186, 921>> >>, <<8179, <<937, 921>> >>, <<8180, <<911, 921>> >>,
     <<8182, <<937, 834>> >>, <<8183, <<937, 834, 921>> >>, <<8188, <<937, 921>> >>,
     <<64256, <<70, 70>> >>, <<64257, <<70, 73>> >>, <<64258, <<70, 76>> >>,
     <<64259, <<70, 70, 73>> >>, <<64260, <<70, 70, 76>> >>, <<64261, <<83, 84>> >>,
     <<64262, <<83, 84>> >>, <<64275, <<1348, 1350>> >>, <<64276, <<1348, 1333>> >>,
     <<64277, <<1348, 1339>> >>, <<64278, <<1358, 1350>> >>, <<64279, <<1348, 1341>> >>}

\* String.prototype.toUpperCase on one code point (may yield several units)
UpperOf(c) ==
    IF c < 128 THEN (IF c >= 97 /\ c <= 122 THEN <<c - 32>> ELSE <<c>>)
    ELSE LET sp == {e \in UpperMulti : e[1] = c}
         IN  IF sp # {} THEN (CHOOSE e \in sp : TRUE)[2]
             ELSE UnitsOf(RunImage(UpperRuns, c))

\* String.prototype.toUpperCase: code point by code point, a surrogate pair
\* being one code point
RECURSIVE ToUpperCase(_)
ToUpperCase(s) ==
    IF s = << >> THEN << >>
    ELSE IF Len(s) >= 2 /\ IsHigh(s[1]) /\ IsLow(s[2])
    THEN UpperOf(CodePointOf(s[1], s[2])) \o ToUpperCase(SubSeq(s, 3, Len(s)))
    ELSE UpperOf(Head(s)) \o ToUpperCase(Tail(s))

\* s.replace(/[^A-Z]/g, "")
RECURSIVE KeepAZ(_)
KeepAZ(s) ==
    IF s = << >> THEN << >>
    ELSE IF Head(s) >= 65 /\ Head(s) <= 90 THEN <<Head(s)>> \o KeepAZ(Tail(s))
    ELSE KeepAZ(Tail(s))

\* the lower case of an ASCII letter
LowerOf(c) == IF c >= 65 /\ c <= 90 THEN c + 32 ELSE c

\* Unicode simple case folding of the code points above ASCII (CaseFolding,
\* Unicode 14), as runs
FoldRuns ==
    {<<181, 181, 1, 775>>, <<192, 214, 1, 32>>, <<216, 222, 1, 32>>, <<256, 302, 2, 1>>,
     <<306, 310, 2, 1>>, <<313, 327, 2, 1>>, <<330, 374, 2, 1>>, <<376, 376, 1, -121>>,
     <<377, 381, 2, 1>>, <<383, 383, 1, -268>>, <<385, 385, 1, 210>>, <<386, 388, 2, 1>>,
     <<390, 390, 1, 206>>, <<391, 391, 1, 1>>, <<393, 394, 1, 205>>, <<395, 395, 1, 1>>,
     <<398, 398, 1, 79>>, <<399, 399, 1, 202>>, <<400, 400, 1, 203>>, <<401, 401, 1, 1>>,
     <<403, 403, 1, 205>>, <<404, 404, 1, 207>>, <<406, 406, 1, 211>>, <<407, 407, 1, 209>>,
     <<408, 408, 1, 1>>, <<412, 412, 1, 211>>, <<413, 413, 1, 213>>, <<415, 415, 1, 214>>,
     <<416, 420, 2, 1>>, <<422, 422, 1, 218>>, <<423, 423, 1, 1>>, <<425, 425, 1, 218>>,
     <<428, 428, 1, 1>>, <<430, 430, 1, 218>>, <<431, 431, 1, 1>>, <<433, 434, 1, 217>>,
     <<435, 437, 2, 1>>, <<439, 439, 1, 219>>, <<440, 440, 1, 1>>, <<444, 444, 1, 1>>,
     <<452, 452, 1, 2>>, <<453, 453, 1, 1>>, <<455, 455, 1, 2>>, <<456, 456, 1, 1>>,
     <<458, 458, 1, 2>>, <<459, 475, 2, 1>>, <<478, 494, 2, 1>>, <<497, 497, 1, 2>>,
     <<498, 500, 2, 1>>, <<502, 502, 1, -97>>, <<503, 503, 1, -56>>, <<504, 542, 2, 1>>,
     <<544, 544, 1, -130>>, <<546, 562, 2, 1>>, <<570, 570, 1, 10795>>, <<571, 571, 1, 1>>,
     <<573, 573, 1, -163>>, <<574, 574, 1, 10792>>, <<577, 577, 1, 1>>, <<579, 579, 1, -195>>,
     <<580, 580, 1, 69>>, <<581, 581, 1, 71>>, <<582, 590, 2, 1>>, <<837, 837, 1, 116>>,
     <<880, 882, 2, 1>>, <<886, 886, 1, 1>>, <<895, 895, 1, 116>>, <<902, 902, 1, 38>>,
     <<904, 906, 1, 37>>, <<908, 908, 1, 64>>, <<910, 911, 1, 63>>, <<913, 929, 1, 32>>,
     <<931, 939, 1, 32>>, <<962, 962, 1, 1>>, <<975, 975, 1, 8>>, <<976, 976, 1, -30>>,
     <<977, 977, 1, -25>>, <<981, 981, 1, -15>>, <<982, 982, 1, -22>>, <<984, 1006, 2, 1>>,
     <<1008, 1008, 1, -54>>, <<1009, 1009, 1, -48>>, <<1012, 1012, 1, -60>>, <<1013, 1013, 1, -64>>,
     <<1015, 1015, 1, 1>>, <<1017, 1017, 1, -7>>, <<1018, 1018, 1, 1>>, <<1021, 1023, 1, -130>>,
     <<1024, 1039, 1, 80>>, <<1040, 1071, 1, 32>>, <<1120, 1152, 2, 1>>, <<1162, 1214, 2, 1>>,
     <<1216, 1216, 1, 15>>, <<1217, 1229, 2, 1>>, <<1232, 1326, 2, 1>>, <<1329, 1366, 1, 48>>,
     <<4256, 4293, 1, 7264>>, <<4295, 4295, 1, 7264>>, <<4301, 4301, 1, 7264>>, <<5112, 5117, 1, -8>>,
     <<7296, 7296, 1, -6222>>, <<7297, 7297, 1, -6221>>, <<7298, 7298, 1, -6212>>, <<7299, 7300, 1, -6210>>,
     <<7301, 7301, 1, -6211>>, <<7302, 7302, 1, -6204>>, <<7303, 7303, 1, -6180>>, <<7304, 7304, 1, 35267>>,
     <<7312, 7354, 1, -3008>>, <<7357, 7359, 1, -3008>>, <<7680, 7828, 2, 1>>, <<7835, 7835, 1, -58>>,
     <<7838, 7838, 1, -7615>>, <<7840, 7934, 2, 1>>, <<7944, 7951, 1, -8>>, <<7960, 7965, 1, -8>>,
     <<7976, 7983, 1, -8>>, <<7992, 7999, 1, -8>>, <<8008, 8013, 1, -8>>, <<8025, 8031, 2, -8>>,
     <<8040, 8047, 1, -8>>, <<8072, 8079, 1, -8>>, <<8088, 8095, 1, -8>>, <<8104, 8111, 1, -8>>,
     <<8120, 8121, 1, -8>>, <<8122, 8123, 1, -74>>, <<8124, 8124, 1, -9>>, <<8126, 8126, 1, -7173>>,
     <<8136, 8139, 1, -86>>, <<8140, 8140, 1, -9>>, <<8152, 8153, 1, -8>>, <<8154, 8155, 1, -100>>,
     <<8168, 8169, 1, -8>>, <<8170, 8171, 1, -112>>, <<8172, 8172, 1, -7>>, <<8184, 8185, 1, -128>>,
     <<8186, 8187, 1, -126>>, <<8188, 8188, 1, -9>>, <<8486, 8486, 1, -7517>>, <<8490, 8490, 1, -8383>>,
     <<8491, 8491, 1, -8262>>, <<8498, 8498, 1, 28>>, <<8544, 8559, 1, 16>>, <<8579, 8579, 1, 1>>,
     <<9398, 9423, 1, 26>>, <<11264, 11311, 1, 48>>, <<11360, 11360, 1, 1>>, <<11362, 11362, 1, -10743>>,
     <<11363, 11363, 1, -3814>>, <<11364, 11364, 1, -10727>>, <<11367, 11371, 2, 1>>, <<11373, 11373, 1, -10780>>,
     <<11374, 11374, 1, -10749>>, <<11375, 11375, 1, -10783>>, <<11376, 11376, 1, -10782>>, <<11378, 11378, 1, 1>>,
     <<11381, 11381, 1, 1>>, <<11390, 11391, 1, -10815>>, <<11392, 11490, 2, 1>>, <<11499, 11501, 2, 1>>,
     <<11506, 11506, 1, 1>>, <<42560, 42604, 2, 1>>, <<42624, 42650, 2, 1>>, <<42786, 42798, 2, 1>>,
     <<42802, 42862, 2, 1>>, <<42873, 42875, 2, 1>>, <<42877, 42877, 1, -35332>>, <<42878, 42886, 2, 1>>,
     <<42891, 42891, 1, 1>>, <<42893, 42893, 1, -42280>>, <<42896, 42898, 2, 1>>, <<42902, 42920, 2, 1>>,
     <<42922, 42922, 1, -42308>>, <<42923, 42923, 1, -42319>>, <<42924, 42924, 1, -42315>>, <<42925, 42925, 1, -42305>>,
     <<42926, 42926, 1, -42308>>, <<42928, 42928, 1, -42258>>, <<42929, 42929, 1, -42282>>, <<42930, 42930, 1, -42261>>,
     <<42931, 42931, 1, 928>>, <<42932, 42946, 2, 1>>, <<42948, 42948, 1, -48>>, <<42949, 42949, 1, -42307>>,
     <<42950, 42950, 1, -35384>>, <<42951, 42953, 2, 1>>, <<42960, 42960, 1, 1>>, <<42966, 42968, 2, 1>>,
     <<42997, 42997, 1, 1>>, <<43888, 43967, 1, -38864>>, <<65313, 65338, 1, 32>>, <<66560, 66599, 1, 40>>,
     <<66736, 66771, 1, 40>>, <<66928, 66964, 2, 39>>, <<66929, 66937, 2, 39>>, <<66941, 66953, 2, 39>>,
     <<66957, 66961, 2, 39>>, <<66965, 66965, 1, 39>>, <<68736, 68786, 1, 64>>, <<71840, 71871, 1, 32>>,
     <<93760, 93791, 1, 32>>, <<125184, 125217, 1, 34>>}

\* the case folding of one code point under a caseless match
FoldOf(c) == IF c < 128 THEN LowerOf(c) ELSE RunImage(FoldRuns, c)

\* case folding of a case-insensitive ($options: "i") regex: code point by
\* code point, a surrogate pair being one code point
FoldCase(s) ==
    [i \in 1..Len(s) |->
        IF IsHigh(s[i]) /\ i < Len(s) /\ IsLow(s[i + 1])
        THEN UnitsOf(FoldOf(CodePointOf(s[i], s[i + 1])))[1]
        ELSE IF IsLow(s[i]) /\ i > 1 /\ IsHigh(s[i - 1])
        THEN UnitsOf(FoldOf(CodePointOf(s[i - 1], s[i])))[2]
        ELSE FoldOf(s[i])]

\* case folding of SQLite's LIKE: ASCII letters only
AsciiFold(s) == [i \in 1..Len(s) |-> LowerOf(s[i])]

\* ------------------------------------------------------------------------
\* Pure helpers of the service
\* ------------------------------------------------------------------------
DeptCodeLen == 3
SerialLen == 6

\* the department code without the padEnd(3, "X")
deptCodeNoPad(dept) ==
    IF ~Truthy(dept) THEN <<71, 69, 78>>
    ELSE Slice0(KeepAZ(ToUpperCase(dept)), DeptCodeLen)

\* the department code with slice(0, 3) taken before the replace
deptCodeSliceFirst(dept) ==
    IF ~Truthy(dept) THEN <<71, 69, 78>>
    ELSE PadEndX(KeepAZ(Slice0(ToUpperCase(dept), DeptCodeLen)), DeptCodeLen)

deptCode(dept) ==
    IF ~Truthy(dept) THEN <<71, 69, 78>>                        \* "GEN"
    ELSE PadEndX(Slice0(KeepAZ(ToUpperCase(dept)), DeptCodeLen), DeptCodeLen)

RECURSIVE DigitSum(_)
DigitSum(digits) ==
    IF digits = << >> THEN 0 ELSE (Head(digits) - 48) + DigitSum(Tail(digits))

\* a digit stream that keeps only the last decimal digit of each char code
RECURSIVE CodeDigitsOnes(_)
CodeDigitsOnes(s) ==
    IF s = << >> THEN << >> ELSE ToDecimal(Head(s) % 10) \o CodeDigitsOnes(Tail(s))

\* the char codes written out in decimal and joined into one digit stream
RECURSIVE CodeDigits(_)
CodeDigits(s) == IF s = << >> THEN << >> ELSE ToDecimal(Head(s)) \o CodeDigits(Tail(s))

\* the check digit reduced modulo 10
checksumDigitMod10(s) == ToDecimal(DigitSum(CodeDigits(s)) % 10)

checksumDigit(s) == ToDecimal(DigitSum(CodeDigits(s)) % 9)

\* ------------------------------------------------------------------------
\* Bounds and the clock
\* ------------------------------------------------------------------------
MaxRequests == 3        \* requests started in one behaviour
MaxDupRequests == 2     \* requests started in one behaviour of the duplicate-check specification
MaxTime == 2            \* largest clock reading
YearLen == 2            \* clock readings per calendar year
EpochYear == 2000 + 25  \* the calendar year of clock reading 0

Procs == {1, 2}         \* request handlers that may be in flight together

\* new Date().getFullYear()
getFullYear(t) == EpochYear + (t \div YearLen)

\* a reading of the wall clock: not before the last reading
Readings(last) == {t \in last..(last + 1) : t <= MaxTime}

\* ------------------------------------------------------------------------
\* State
\* ------------------------------------------------------------------------
VARIABLES
    store,      \* the employees collection: a set of documents
    now,        \* the last reading of the wall clock
    nextOid,    \* the next fresh document _id
    started,    \* how many requests have been started
    pc,         \* per handler: the await it is suspended at
    op,         \* per handler: "create", "update" or "delete"
    body,       \* per handler: the destructured request fields
    loc,        \* per handler: its local variables
    resp,       \* per handler: the response it sent
    log         \* history: the employee_id of every insert, in insert order

vars == <<store, now, nextOid, started, pc, op, body, loc, resp, log>>

NoResp == [status |-> 0, success |-> FALSE, error |-> "", employee_id |-> NULL]
NoDoc == [_id |-> 0, employee_id |-> NULL, first_name |-> NULL, last_name |-> NULL,
          contact |-> NULL, dob |-> NULL, email |-> NULL, dept |-> NULL,
          photo_public_id |-> NULL, photo_url |-> NULL, created_at |-> 0]
NoLoc == [yy |-> << >>, dcode |-> << >>, employee_id |-> NULL, created_at |-> 0,
          photo_public_id |-> NULL, photo_url |-> NULL, oid |-> 0, existing |-> NoDoc]
NoBody == [first_name |-> << >>, last_name |-> << >>, contact |-> << >>,
           dob |-> << >>, email |-> << >>, dept |-> << >>, photoUrl |-> << >>,
           file |-> FALSE, eid |-> << >>]

Init ==
    /\ store = {}
    /\ now = 0
    /\ nextOid = 1
    /\ started = 0
    /\ pc = [p \in Procs |-> "idle"]
    /\ op = [p \in Procs |-> "none"]
    /\ body = [p \in Procs |-> NoBody]
    /\ loc = [p \in Procs |-> NoLoc]
    /\ resp = [p \in Procs |-> NoResp]
    /\ log = << >>

\* ------------------------------------------------------------------------
\* Responses
\* ------------------------------------------------------------------------
\* res.status(400).json({ success: false, error: "first_name and last_name are required" })
RespRequired == [status |-> 400, success |-> FALSE, error |-> "required", employee_id |-> NULL]
\* the duplicate rejection answered as a server error
RespDuplicate500 == [status |-> 500, success |-> FALSE, error |-> "duplicate", employee_id |-> NULL]
\* res.status(400).json({ success: false, error: "Duplicate employee detected! ..." })
RespDuplicate == [status |-> 400, success |-> FALSE, error |-> "duplicate", employee_id |-> NULL]
\* res.status(500).json({ success: false, error: "Image upload failed", details })
RespUpload == [status |-> 500, success |-> FALSE, error |-> "upload", employee_id |-> NULL]
\* res.status(404).json({ success: false, error: "Not found" })
RespNotFound == [status |-> 404, success |-> FALSE, error |-> "notfound", employee_id |-> NULL]
\* the catch block: res.status(500).json({ success: false, error: String(err) })
RespCaught(err) == [status |-> 500, success |-> FALSE, error |-> err, employee_id |-> NULL]
\* res.json({ success: true, employee, employee_id, ... })
RespCreated(id) == [status |-> 200, success |-> TRUE, error |-> "", employee_id |-> id]
\* res.json({ success: true, employee: existing, ... })
RespUpdated(id) == [status |-> 200, success |-> TRUE, error |-> "", employee_id |-> id]
\* res.json({ success: true, message: "Deleted" })
RespDeleted == [status |-> 200, success |-> TRUE, error |-> "", employee_id |-> NULL]

\* the handler returns: the response is sent (body and loc keep what the
\* handler held when it returned, until the slot takes its next request)
Finish(p, r) ==
    /\ pc' = [pc EXCEPT ![p] = "done"]
    /\ resp' = [resp EXCEPT ![p] = r]
    /\ UNCHANGED <<body, loc>>

\* the handler suspends at its next await with locals l
Await(p, next, l) ==
    /\ pc' = [pc EXCEPT ![p] = next]
    /\ loc' = [loc EXCEPT ![p] = l]
    /\ UNCHANGED <<resp, body>>

\* ------------------------------------------------------------------------
\* The duplicate query (POST and PUT)
\* ------------------------------------------------------------------------
\* { field: value } : equality; { field: null } matches a stored null
FieldEq(stored, q) == stored = q

\* { field: { $regex: `^${escapeRegExp(pat)}$`, $options: "i" } }
\* ($ without the m option also matches before a newline that ends the value)
RegexI(stored, pat) ==
    LET p == FoldCase(IF Truthy(pat) THEN pat ELSE << >>)
    IN  /\ stored # NULL
        /\ \/ FoldCase(stored) = p
           \/ FoldCase(stored) = p \o <<10>>

EmailClause(doc, b) == FieldEq(doc.email, OrNull(b.email))
ContactClause(doc, b) == FieldEq(doc.contact, OrNull(b.contact))
\* the name clause written with equality instead of the "i" regex
NameDobClauseExact(doc, b) ==
    /\ FieldEq(doc.first_name, b.first_name)
    /\ FieldEq(doc.last_name, b.last_name)
    /\ FieldEq(doc.dob, OrNull(b.dob))

NameDobClause(doc, b) ==
    /\ RegexI(doc.first_name, b.first_name)
    /\ RegexI(doc.last_name, b.last_name)
    /\ FieldEq(doc.dob, OrNull(b.dob))

DupMatch(doc, b) ==
    \/ EmailClause(doc, b)
    \/ ContactClause(doc, b)
    \/ NameDobClause(doc, b)

\* ------------------------------------------------------------------------
\* generateEmployeeId
\* ------------------------------------------------------------------------
yyOf(t) == SliceLast(ToDecimal(getFullYear(t)), 2)

BucketPrefix(yy, dcode) == Concat(<<COMPANY_CODE, Hyphen, yy, Hyphen, dcode>>)

\* a pattern that accepts any three characters in the department segment
RegexMatchAnyDept(id, yy, dcode) ==
    LET pre == Concat(<<COMPANY_CODE, Hyphen, yy, Hyphen>>)
        n == Len(pre) + DeptCodeLen + 1
    IN  /\ id # NULL
        /\ Len(id) = n + SerialLen + 2
        /\ SubSeq(id, 1, Len(pre)) = pre
        /\ id[n] = 45
        /\ \A i \in (n + 1)..(n + SerialLen) : IsDigit(id[i])
        /\ id[n + SerialLen + 1] = 45
        /\ IsDigit(id[n + SerialLen + 2])

\* new RegExp(`^${COMPANY_CODE}-${yy}-${dcode}-\\d{6}-\\d$`)
RegexMatch(id, yy, dcode) ==
    LET pre == BucketPrefix(yy, dcode) \o Hyphen
        n == Len(pre)
    IN  /\ id # NULL
        /\ Len(id) = n + SerialLen + 2
        /\ SubSeq(id, 1, n) = pre
        /\ \A i \in (n + 1)..(n + SerialLen) : IsDigit(id[i])
        /\ id[n + SerialLen + 1] = 45
        /\ IsDigit(id[n + SerialLen + 2])

\* .sort({ created_at: -1 })
SortKey(doc) == doc.created_at

\* a lookup whose failure is swallowed and read as "no record"
FindLatestLost(st, yy, dcode) == {}

\* findOne({ employee_id: { $regex } }).sort({ created_at: -1 }): the documents
\* the query may return (several when the sort key ties; none when nothing matches)
FindLatest(st, yy, dcode) ==
    LET m == {d \in st : RegexMatch(d.employee_id, yy, dcode)}
    IN  {d \in m : \A e \in m : SortKey(e) <= SortKey(d)}

\* parseInt(parts[3] || "0", 10) || 0
LastSerial(id) ==
    LET parts == Split(id)
        field == IF Len(parts) >= 4 /\ parts[4] # << >> THEN parts[4] ELSE <<48>>
        n == ParseInt(field)
    IN  IF n < 0 THEN 0 ELSE n

\* an identifier whose check digit is computed before the serial is advanced
BuildIdStaleCheck(lastSerial, yy, dcode) ==
    LET serialStr == PadStart(ToDecimal(lastSerial + 1), SerialLen)
        raw == Concat(<<BucketPrefix(yy, dcode), Hyphen, serialStr>>)
        stale == Concat(<<BucketPrefix(yy, dcode), Hyphen,
                          PadStart(ToDecimal(lastSerial), SerialLen)>>)
    IN  Concat(<<raw, Hyphen, checksumDigit(stale)>>)

\* an identifier that repeats the last serial instead of advancing it
BuildIdNoIncrement(lastSerial, yy, dcode) ==
    LET serialStr == PadStart(ToDecimal(lastSerial), SerialLen)
        raw == Concat(<<BucketPrefix(yy, dcode), Hyphen, serialStr>>)
    IN  Concat(<<raw, Hyphen, checksumDigit(raw)>>)

\* the tail of generateEmployeeId, from lastSerial to the returned string
BuildId(lastSerial, yy, dcode) ==
    LET nextSerial == lastSerial + 1
        serialStr == PadStart(ToDecimal(nextSerial), SerialLen)
        raw == Concat(<<BucketPrefix(yy, dcode), Hyphen, serialStr>>)
    IN  Concat(<<raw, Hyphen, checksumDigit(raw)>>)

\* the identifiers generateEmployeeId may return against store st
GeneratedIds(st, yy, dcode) ==
    IF FindLatest(st, yy, dcode) = {}
    THEN {BuildId(0, yy, dcode)}
    ELSE {BuildId(LastSerial(last.employee_id), yy, dcode) : last \in FindLatest(st, yy, dcode)}

\* the SQLite variant: employee_id LIKE 'ART-yy-dcode-%' (LIKE ignores the case
\* of ASCII letters; the pattern holds no _ and no other %)
LikeMatch(id, yy, dcode) ==
    LET pre == BucketPrefix(yy, dcode) \o Hyphen
    IN  /\ id # NULL
        /\ Len(id) >= Len(pre)
        /\ AsciiFold(SubSeq(id, 1, Len(pre))) = AsciiFold(pre)

\* ... ORDER BY id DESC LIMIT 1 (id is the autoincrement row id)
FindLatestSql(st, yy, dcode) ==
    LET m == {d \in st : LikeMatch(d.employee_id, yy, dcode)}
    IN  {d \in m : \A e \in m : e._id <= d._id}

\* the identifier the SQLite variant's generateEmployeeId returns against the
\* rows st
GeneratedIdSql(st, yy, dcode) ==
    IF FindLatestSql(st, yy, dcode) = {}
    THEN BuildId(0, yy, dcode)
    ELSE BuildId(LastSerial((CHOOSE r \in FindLatestSql(st, yy, dcode) : TRUE).employee_id),
                 yy, dcode)

\* ------------------------------------------------------------------------
\* POST /api/employees
\* ------------------------------------------------------------------------
\* a new request is taken by the lowest free handler slot
Begin(p, kind) ==
    /\ pc[p] \in {"idle", "done"}
    /\ \A q \in Procs : q < p => pc[q] \notin {"idle", "done"}
    /\ started' = started + 1
    /\ op' = [op EXCEPT ![p] = kind]

\* request arrival: destructuring, validation, the duplicate query is issued
CreateStart(p, b) ==
    /\ Begin(p, "create")
    /\ body' = [body EXCEPT ![p] = b]
    /\ loc' = [loc EXCEPT ![p] = NoLoc]
    /\ IF ~Truthy(b.first_name) \/ ~Truthy(b.last_name)
       THEN /\ pc' = [pc EXCEPT ![p] = "done"]
            /\ resp' = [resp EXCEPT ![p] = RespRequired]
       ELSE /\ pc' = [pc EXCEPT ![p] = "dupQuery"]
            /\ resp' = [resp EXCEPT ![p] = NoResp]
    /\ UNCHANGED <<store, now, nextOid, log>>

\* a catch block that deletes the record the handler inserted
CaughtStoreRollback(st, p) == {d \in st : d._id # loc[p].oid}

\* the collection after the handler's catch block ran: the block logs and
\* answers, it does not touch the collection
CaughtStore(st, p) == st

\* catch (err) { res.status(500).json({ success: false, error: String(err) }) }
CreateCaught(p, err) ==
    /\ Finish(p, RespCaught(err))
    /\ store' = CaughtStore(store, p)

\* the duplicate query resolves; when clear, generateEmployeeId starts
\* (reads the year, derives the department code, issues its query)
CreateDupCheck(p) ==
    /\ op[p] = "create" /\ pc[p] = "dupQuery"
    /\ \/ /\ CreateCaught(p, "StoreError")
          /\ UNCHANGED now
       \/ /\ \E d \in store : DupMatch(d, body[p])
          /\ Finish(p, RespDuplicate)
          /\ UNCHANGED <<store, now>>
       \/ /\ ~\E d \in store : DupMatch(d, body[p])
          /\ \E t \in Readings(now) :
                /\ now' = t
                /\ Await(p, "idQuery",
                         [loc[p] EXCEPT !.yy = yyOf(t), !.dcode = deptCode(body[p].dept)])
          /\ UNCHANGED store
    /\ UNCHANGED <<nextOid, started, op, log>>

\* a handler that goes from the identifier straight to proof generation
AfterGenIdNoInsert(b) == "proof"

\* what the handler awaits once the identifier is generated
\* (if (!photo_url && req.file && req.file.buffer) upload first)
AfterGenId(b) == IF ~Truthy(b.photoUrl) /\ b.file THEN "upload" ELSE "save"

\* generateEmployeeId's query resolves; created_at is read; the photo
\* upload or the insert is issued
CreateGenId(p) ==
    /\ op[p] = "create" /\ pc[p] = "idQuery"
    /\ \/ /\ CreateCaught(p, "StoreError")
          /\ UNCHANGED now
       \/ /\ \E id \in GeneratedIds(store, loc[p].yy, loc[p].dcode), t \in Readings(now) :
                /\ now' = t
                /\ Await(p, AfterGenId(body[p]),
                         [loc[p] EXCEPT !.employee_id = id,
                                        !.created_at = t,
                                        !.photo_url = OrNull(body[p].photoUrl)])
          /\ UNCHANGED store
    /\ UNCHANGED <<nextOid, started, op, log>>

\* uploadBufferToCloudinary resolves or rejects
CreateUpload(p) ==
    /\ op[p] = "create" /\ pc[p] = "upload"
    /\ \/ Finish(p, RespUpload)
       \/ Await(p, "save", [loc[p] EXCEPT !.photo_public_id = sPid, !.photo_url = sUrl])
    /\ UNCHANGED <<store, now, nextOid, started, op, log>>

\* a document saved without the identifier the handler generated
NewDocNoId(p, oid) ==
    [_id |-> oid,
     employee_id |-> NULL,
     first_name |-> body[p].first_name,
     last_name |-> body[p].last_name,
     contact |-> body[p].contact,
     dob |-> body[p].dob,
     email |-> body[p].email,
     dept |-> body[p].dept,
     photo_public_id |-> loc[p].photo_public_id,
     photo_url |-> loc[p].photo_url,
     created_at |-> loc[p].created_at]

\* the document doc.save() inserts
NewDoc(p, oid) ==
    [_id |-> oid,
     employee_id |-> loc[p].employee_id,
     first_name |-> body[p].first_name,
     last_name |-> body[p].last_name,
     contact |-> body[p].contact,
     dob |-> body[p].dob,
     email |-> body[p].email,
     dept |-> body[p].dept,
     photo_public_id |-> loc[p].photo_public_id,
     photo_url |-> loc[p].photo_url,
     created_at |-> loc[p].created_at]

\* a collection whose unique index on employee_id is missing
UniqueViolationNoIndex(st, id) == FALSE

\* employee_id: { type: String, unique: true, index: true }
UniqueViolation(st, id) == \E d \in st : d.employee_id = id

\* doc.save() resolves or rejects; QR and barcode generation is issued
CreateSave(p) ==
    /\ op[p] = "create" /\ pc[p] = "save"
    /\ \/ /\ CreateCaught(p, "StoreError")
          /\ UNCHANGED <<nextOid, log>>
       \/ /\ UniqueViolation(store, loc[p].employee_id)
          /\ CreateCaught(p, "E11000")
          /\ UNCHANGED <<nextOid, log>>
       \/ /\ ~UniqueViolation(store, loc[p].employee_id)
          /\ store' = store \cup {NewDoc(p, nextOid)}
          /\ nextOid' = nextOid + 1
          /\ log' = Append(log, loc[p].employee_id)
          /\ Await(p, "proof", [loc[p] EXCEPT !.oid = nextOid])
    /\ UNCHANGED <<now, started, op>>

\* Promise.all([makeQRDataURL, makeBarcodeDataURL]) resolves or rejects
CreateProof(p) ==
    /\ op[p] = "create" /\ pc[p] = "proof"
    /\ \/ /\ Finish(p, RespCreated(loc[p].employee_id))
          /\ UNCHANGED store
       \/ CreateCaught(p, "ProofError")
    /\ UNCHANGED <<now, nextOid, started, op, log>>

\* ------------------------------------------------------------------------
\* DELETE /api/employees/:employee_id
\* ------------------------------------------------------------------------
\* request arrival: findOne({ employee_id: eid }) is issued
DeleteStart(p, eid) ==
    /\ Begin(p, "delete")
    /\ pc' = [pc EXCEPT ![p] = "findRow"]
    /\ resp' = [resp EXCEPT ![p] = NoResp]
    /\ body' = [body EXCEPT ![p] = [NoBody EXCEPT !.eid = eid]]
    /\ loc' = [loc EXCEPT ![p] = NoLoc]
    /\ UNCHANGED <<store, now, nextOid, log>>

\* findOne resolves; the photo delete or deleteOne is issued
DeleteFind(p) ==
    /\ op[p] = "delete" /\ pc[p] = "findRow"
    /\ \/ Finish(p, RespCaught("StoreError"))
       \/ /\ ~\E d \in store : d.employee_id = body[p].eid
          /\ Finish(p, RespNotFound)
       \/ \E d \in store :
             /\ d.employee_id = body[p].eid
             /\ Await(p,
                      IF Truthy(d.photo_public_id) THEN "destroyPhoto" ELSE "deleteOne",
                      [loc[p] EXCEPT !.photo_public_id = d.photo_public_id])
    /\ UNCHANGED <<store, now, nextOid, started, op, log>>

\* deleteCloudinaryImage resolves (its own failure is caught and logged)
DeletePhoto(p) ==
    /\ op[p] = "delete" /\ pc[p] = "destroyPhoto"
    /\ Await(p, "deleteOne", loc[p])
    /\ UNCHANGED <<store, now, nextOid, started, op, log>>

\* a delete whose store operation removes every record
DeleteOneAll(p) ==
    /\ op[p] = "delete" /\ pc[p] = "deleteOne"
    /\ \/ /\ Finish(p, RespCaught("StoreError"))
          /\ UNCHANGED store
       \/ /\ store' = {}
          /\ Finish(p, RespDeleted)
    /\ UNCHANGED <<now, nextOid, started, op, log>>

\* Employee.deleteOne({ employee_id: eid }) resolves or rejects
DeleteOne(p) ==
    /\ op[p] = "delete" /\ pc[p] = "deleteOne"
    /\ \/ /\ Finish(p, RespCaught("StoreError"))
          /\ UNCHANGED store
       \/ /\ store' = {d \in store : d.employee_id # body[p].eid}
          /\ Finish(p, RespDeleted)
    /\ UNCHANGED <<now, nextOid, started, op, log>>

\* ------------------------------------------------------------------------
\* PUT /api/employees/:employee_id
\* ------------------------------------------------------------------------
sDELETE == <<95, 95, 68, 69, 76, 69, 84, 69, 95, 95>>           \* "__DELETE__"

\* request arrival: findOne({ employee_id: eid }) is issued
UpdateStart(p, b) ==
    /\ Begin(p, "update")
    /\ pc' = [pc EXCEPT ![p] = "findExisting"]
    /\ resp' = [resp EXCEPT ![p] = NoResp]
    /\ body' = [body EXCEPT ![p] = b]
    /\ loc' = [loc EXCEPT ![p] = NoLoc]
    /\ UNCHANGED <<store, now, nextOid, log>>

\* the destructuring of the PUT body: a missing field takes the existing value
Merged(b, e) ==
    [b EXCEPT !.first_name = Default(b.first_name, e.first_name),
              !.last_name = Default(b.last_name, e.last_name),
              !.contact = Default(b.contact, e.contact),
              !.dob = Default(b.dob, e.dob),
              !.email = Default(b.email, e.email),
              !.dept = Default(b.dept, e.dept),
              !.photoUrl = Default(b.photoUrl, << >>)]

\* findOne resolves; destructuring, validation, the duplicate query is issued
UpdateFind(p) ==
    /\ op[p] = "update" /\ pc[p] = "findExisting"
    /\ \/ Finish(p, RespCaught("StoreError"))
       \/ /\ ~\E d \in store : d.employee_id = body[p].eid
          /\ Finish(p, RespNotFound)
       \/ \E d \in store :
             /\ d.employee_id = body[p].eid
             /\ LET m == Merged(body[p], d)
                IN  /\ body' = [body EXCEPT ![p] = m]
                    /\ loc' = [loc EXCEPT ![p] = [NoLoc EXCEPT !.existing = d]]
                    /\ IF ~Truthy(m.first_name) \/ ~Truthy(m.last_name)
                       THEN /\ pc' = [pc EXCEPT ![p] = "done"]
                            /\ resp' = [resp EXCEPT ![p] = RespRequired]
                       ELSE /\ pc' = [pc EXCEPT ![p] = "dupQuery"]
                            /\ UNCHANGED resp
    /\ UNCHANGED <<store, now, nextOid, started, op, log>>

\* the photo fields the PUT handler settles on when no file is uploaded
PhotoAfter(b, e) ==
    IF b.photoUrl = sDELETE
    THEN [photo_public_id |-> NULL, photo_url |-> NULL]
    ELSE IF Truthy(b.photoUrl) /\ b.photoUrl # OrNull(e.photo_url)
    THEN [photo_public_id |-> NULL, photo_url |-> b.photoUrl]
    ELSE [photo_public_id |-> OrNull(e.photo_public_id), photo_url |-> OrNull(e.photo_url)]

\* without a file: the handler awaits deleteCloudinaryImage(photo_public_id)
\* before it clears or replaces the photo of a record uploaded by the server
DestroysOld(b, e) ==
    /\ Truthy(e.photo_public_id)
    /\ \/ b.photoUrl = sDELETE
       \/ Truthy(b.photoUrl) /\ b.photoUrl # OrNull(e.photo_url)

\* the locals once the photo fields are settled without a file
PhotoSettled(p) ==
    [loc[p] EXCEPT
        !.photo_public_id = PhotoAfter(body[p], loc[p].existing).photo_public_id,
        !.photo_url = PhotoAfter(body[p], loc[p].existing).photo_url]

\* the locals once the uploaded image has replaced the photo
PhotoUploaded(p) ==
    [loc[p] EXCEPT !.photo_public_id = sPid, !.photo_url = sUrl]

\* the duplicate query (_id: { $ne: existing._id }) resolves; the photo upload,
\* the removal of the old image or existing.save() is issued
UpdateDupCheck(p) ==
    /\ op[p] = "update" /\ pc[p] = "dupQuery"
    /\ \/ Finish(p, RespCaught("StoreError"))
       \/ /\ \E d \in store : d._id # loc[p].existing._id /\ DupMatch(d, body[p])
          /\ Finish(p, RespDuplicate)
       \/ /\ ~\E d \in store : d._id # loc[p].existing._id /\ DupMatch(d, body[p])
          /\ IF body[p].file
             THEN Await(p, "upload", loc[p])
             ELSE IF DestroysOld(body[p], loc[p].existing)
             THEN Await(p, "destroyPhoto", loc[p])
             ELSE Await(p, "save", PhotoSettled(p))
    /\ UNCHANGED <<store, now, nextOid, started, op, log>>

\* uploadBufferToCloudinary resolves or rejects; the removal of the old image
\* (when the record has one uploaded by the server) or existing.save() is issued
UpdateUpload(p) ==
    /\ op[p] = "update" /\ pc[p] = "upload"
    /\ \/ Finish(p, RespUpload)
       \/ IF Truthy(loc[p].existing.photo_public_id)
          THEN Await(p, "destroyPhoto", loc[p])
          ELSE Await(p, "save", PhotoUploaded(p))
    /\ UNCHANGED <<store, now, nextOid, started, op, log>>

\* deleteCloudinaryImage resolves (its own failure is caught and logged); the
\* photo fields are set and existing.save() is issued
UpdateDestroyPhoto(p) ==
    /\ op[p] = "update" /\ pc[p] = "destroyPhoto"
    /\ Await(p, "save", IF body[p].file THEN PhotoUploaded(p) ELSE PhotoSettled(p))
    /\ UNCHANGED <<store, now, nextOid, started, op, log>>

\* an update that also assigns the employee_id field of its body
AssignedWithId(p) ==
    [first_name |-> body[p].first_name, last_name |-> body[p].last_name,
     contact |-> body[p].contact, dob |-> body[p].dob, email |-> body[p].email,
     dept |-> body[p].dept, photo_public_id |-> loc[p].photo_public_id,
     photo_url |-> loc[p].photo_url, employee_id |-> body[p].employee_id]

\* the fields the handler assigns to `existing` (employee_id is not among them)
Assigned(p) ==
    [first_name |-> body[p].first_name, last_name |-> body[p].last_name,
     contact |-> body[p].contact, dob |-> body[p].dob, email |-> body[p].email,
     dept |-> body[p].dept, photo_public_id |-> loc[p].photo_public_id,
     photo_url |-> loc[p].photo_url]

\* existing.save(): $set of the paths whose value differs from the one loaded
Saved(d, e, a) ==
    [f \in DOMAIN d |-> IF f \in DOMAIN a /\ a[f] # e[f] THEN a[f] ELSE d[f]]

\* existing.save() resolves or rejects (DocumentNotFoundError when the document
\* is gone); QR and barcode generation is issued
UpdateSave(p) ==
    /\ op[p] = "update" /\ pc[p] = "save"
    /\ \/ /\ Finish(p, RespCaught("StoreError"))
          /\ UNCHANGED store
       \/ /\ ~\E d \in store : d._id = loc[p].existing._id
          /\ Finish(p, RespCaught("DocumentNotFound"))
          /\ UNCHANGED store
       \/ /\ \E d \in store : d._id = loc[p].existing._id
          /\ store' = {IF d._id = loc[p].existing._id
                       THEN Saved(d, loc[p].existing, Assigned(p)) ELSE d : d \in store}
          /\ Await(p, "proof", loc[p])
    /\ UNCHANGED <<now, nextOid, started, op, log>>

\* Promise.all([makeQRDataURL, makeBarcodeDataURL]) resolves or rejects
UpdateProof(p) ==
    /\ op[p] = "update" /\ pc[p] = "proof"
    /\ \/ Finish(p, RespUpdated(loc[p].existing.employee_id))
       \/ Finish(p, RespCaught("ProofError"))
    /\ UNCHANGED <<store, now, nextOid, started, op, log>>

\* ------------------------------------------------------------------------
\* The read endpoints: GET /api/employees, GET /api/employees/:employee_id,
\* .../qr, .../barcode, GET /verify/:employee_id
\* ------------------------------------------------------------------------
\* the endpoints that look one record up and then render a QR code or barcode
RenderKinds == {"get", "qr", "barcode"}

ReadKinds == {"list", "verify"} \cup RenderKinds

\* res.json({ success: true, employees, count, limit, offset })
RespListed == [status |-> 200, success |-> TRUE, error |-> "", employee_id |-> NULL]
\* the record, its image or its page is sent
RespRead(id) == [status |-> 200, success |-> TRUE, error |-> "", employee_id |-> id]

\* request arrival: find(filter) or findOne({ employee_id: eid }) is issued
ReadStart(p, kind, eid) ==
    /\ Begin(p, kind)
    /\ pc' = [pc EXCEPT ![p] = "findRow"]
    /\ resp' = [resp EXCEPT ![p] = NoResp]
    /\ body' = [body EXCEPT ![p] = [NoBody EXCEPT !.eid = eid]]
    /\ loc' = [loc EXCEPT ![p] = NoLoc]
    /\ UNCHANGED <<store, now, nextOid, log>>

\* GET /api/employees: find(filter).sort().skip().limit().lean() resolves or rejects
ListFind(p) ==
    /\ op[p] = "list" /\ pc[p] = "findRow"
    /\ \/ Finish(p, RespCaught("StoreError"))
       \/ Finish(p, RespListed)
    /\ UNCHANGED <<store, now, nextOid, started, op, log>>

\* GET one, QR, barcode: findOne().lean() resolves; the image generation is issued
RenderFind(p) ==
    /\ op[p] \in RenderKinds /\ pc[p] = "findRow"
    /\ \/ Finish(p, RespCaught("StoreError"))
       \/ /\ ~\E d \in store : d.employee_id = body[p].eid
          /\ Finish(p, RespNotFound)
       \/ \E d \in store :
             /\ d.employee_id = body[p].eid
             /\ Await(p, "proof", [loc[p] EXCEPT !.existing = d])
    /\ UNCHANGED <<store, now, nextOid, started, op, log>>

\* makeQRDataURL / makeBarcodeDataURL / makeQRCodeBuffer / makeBarcodeBuffer
\* resolves or rejects
RenderProof(p) ==
    /\ op[p] \in RenderKinds /\ pc[p] = "proof"
    /\ \/ Finish(p, RespRead(loc[p].existing.employee_id))
       \/ Finish(p, RespCaught("ProofError"))
    /\ UNCHANGED <<store, now, nextOid, started, op, log>>

\* GET /verify/:employee_id: findOne().lean() resolves or rejects, the page is sent
VerifyFind(p) ==
    /\ op[p] = "verify" /\ pc[p] = "findRow"
    /\ \/ Finish(p, RespCaught("StoreError"))
       \/ /\ ~\E d \in store : d.employee_id = body[p].eid
          /\ Finish(p, RespNotFound)
       \/ \E d \in store :
             /\ d.employee_id = body[p].eid
             /\ Finish(p, RespRead(d.employee_id))
    /\ UNCHANGED <<store, now, nextOid, started, op, log>>

\* ------------------------------------------------------------------------
\* Requests offered to the service
\* ------------------------------------------------------------------------
CreateBody(fn, ln, em, ct, db, dp, f) ==
    [first_name |-> Default(fn, << >>), last_name |-> Default(ln, << >>),
     contact |-> Default(ct, << >>), dob |-> Default(db, << >>),
     email |-> Default(em, << >>), dept |-> Default(dp, << >>),
     photoUrl |-> << >>, file |-> f, eid |-> << >>]

\* POST bodies of the allocation specification: two buckets, with and without
\* a photo, a missing first name, an email
Bodies ==
    {CreateBody(sAnn, sLee, UNDEF, UNDEF, UNDEF, sEngineering, FALSE),
     CreateBody(sAnn, sLee, UNDEF, UNDEF, UNDEF, NULL, TRUE),
     CreateBody(UNDEF, sLee, UNDEF, UNDEF, UNDEF, NULL, FALSE),
     CreateBody(sBob, sLee, sMailLower, UNDEF, UNDEF, sEngineering, FALSE)}

\* POST bodies of the create/update/delete specification: one bucket, no photo
PlainBodies ==
    {CreateBody(sAnn, sLee, UNDEF, UNDEF, UNDEF, sEngineering, FALSE),
     CreateBody(sBob, sLee, sMailLower, UNDEF, UNDEF, sEngineering, FALSE)}

UpdateBody(eid, fn, em, dp, f) ==
    [first_name |-> fn, last_name |-> UNDEF, contact |-> UNDEF, dob |-> UNDEF,
     email |-> em, dept |-> dp, photoUrl |-> UNDEF, file |-> f, eid |-> eid]

\* PUT bodies: a resubmission, and a move to no department with an email
UpdateBodies(eid) ==
    {UpdateBody(eid, UNDEF, UNDEF, UNDEF, FALSE),
     UpdateBody(eid, UNDEF, sMailLower, NULL, FALSE)}

\* identifiers a client may name: every one ever issued, and one never issued
KnownIds == {log[i] : i \in 1..Len(log)} \cup {sBogusId}

CreateSteps(p) ==
    \/ CreateDupCheck(p)
    \/ CreateGenId(p)
    \/ CreateSave(p)
    \/ CreateProof(p)

UpdateSteps(p) ==
    \/ UpdateFind(p)
    \/ UpdateDupCheck(p)
    \/ UpdateSave(p)
    \/ UpdateProof(p)

\* allocation under concurrency: POST and DELETE, two handlers in flight
Next ==
    \E p \in Procs :
        \/ started < MaxRequests /\ \E b \in Bodies : CreateStart(p, b)
        \/ CreateSteps(p)
        \/ CreateUpload(p)
        \/ started < MaxRequests /\ \E eid \in KnownIds : DeleteStart(p, eid)
        \/ DeleteFind(p)
        \/ DeletePhoto(p)
        \/ DeleteOne(p)

Spec == Init /\ [][Next]_vars

\* POST, PUT and DELETE together, two handlers in flight, requests without photos
NextCrud ==
    \E p \in Procs :
        \/ started < MaxRequests /\ \E b \in PlainBodies : CreateStart(p, b)
        \/ CreateSteps(p)
        \/ started < MaxRequests /\ \E eid \in KnownIds : \E b \in UpdateBodies(eid) : UpdateStart(p, b)
        \/ UpdateSteps(p)
        \/ started < MaxRequests /\ \E eid \in KnownIds : DeleteStart(p, eid)
        \/ DeleteFind(p)
        \/ DeleteOne(p)

SpecCrud == Init /\ [][NextCrud]_vars

\* POST bodies of the duplicate-check specification: first names differing in
\* case and not at all; email and date of birth null, missing or set (the email
\* in either case); and contact null, missing or set
DupBodies ==
    {CreateBody(fn, sLee, em, UNDEF, db, sEngineering, FALSE) :
        fn \in {sAnn, sANN, sBob}, em \in {NULL, UNDEF, sMailLower, sMailUpper},
        db \in {NULL, UNDEF, sDob}}
    \cup {CreateBody(fn, sLee, UNDEF, ct, UNDEF, sEngineering, FALSE) :
        fn \in {sAnn, sBob}, ct \in {NULL, sPhone}}

\* the duplicate check against a growing store: POST requests one after another
NextDup ==
    \/ started < MaxDupRequests /\ \E b \in DupBodies : CreateStart(1, b)
    \/ CreateSteps(1)

SpecDup == Init /\ [][NextDup]_vars

\* a PUT body that carries an employee_id field of its own (the handler's
\* destructuring does not name it)
UpdateBodyWithId(eid, dp, newid, f) ==
    ("employee_id" :> newid) @@ UpdateBody(eid, UNDEF, UNDEF, dp, f)

\* PUT bodies that try to move a record: to another department, with a new
\* photo, with the photo removed, each naming another identifier
MoveBodies(eid) ==
    {UpdateBodyWithId(eid, sAb, sBogusId, FALSE),
     UpdateBodyWithId(eid, UNDEF, sBogusId, TRUE),
     [UpdateBodyWithId(eid, UNDEF, sBogusId, FALSE) EXCEPT !.photoUrl = sDELETE]}

\* updates against created records: POST and PUT, two handlers in flight
NextUpd ==
    \E p \in Procs :
        \/ started < MaxRequests /\ \E b \in PlainBodies : CreateStart(p, b)
        \/ CreateSteps(p)
        \/ started < MaxRequests /\ \E eid \in KnownIds : \E b \in MoveBodies(eid) : UpdateStart(p, b)
        \/ UpdateSteps(p)
        \/ UpdateUpload(p)
        \/ UpdateDestroyPhoto(p)

SpecUpd == Init /\ [][NextUpd]_vars

\* the largest serial that padStart(6, "0") renders in six digits
MaxSerial6 == 10^SerialLen - 1

\* the record of bucket ART-25-ENG that was issued serial 999999
RollDoc ==
    [NoDoc EXCEPT !._id = 1,
                  !.employee_id = BuildId(MaxSerial6 - 1, yyOf(0), deptCode(sEngineering)),
                  !.first_name = sAnn, !.last_name = sLee,
                  !.contact = << >>, !.dob = << >>, !.email = << >>,
                  !.dept = sEngineering, !.created_at = 0]

\* a service whose bucket ART-25-ENG has reached serial 999999: that
\* record is the one still stored (the log starts with it)
InitRoll ==
    /\ store = {RollDoc}
    /\ now = 0
    /\ nextOid = 2
    /\ started = 0
    /\ pc = [p \in Procs |-> "idle"]
    /\ op = [p \in Procs |-> "none"]
    /\ body = [p \in Procs |-> NoBody]
    /\ loc = [p \in Procs |-> NoLoc]
    /\ resp = [p \in Procs |-> NoResp]
    /\ log = <<RollDoc.employee_id>>

\* create requests against that service, two handlers in flight
NextRoll ==
    \E p \in Procs :
        \/ started < MaxRequests /\ \E b \in Bodies : CreateStart(p, b)
        \/ CreateSteps(p)
        \/ CreateUpload(p)

SpecRoll == InitRoll /\ [][NextRoll]_vars

sSpace == <<32>>                                                \* " "

\* POST bodies of the validation specification: each name missing, null,
\* empty, a single blank, or set
ValBodies ==
    {CreateBody(fn, ln, UNDEF, UNDEF, UNDEF, sEngineering, FALSE) :
        fn \in {UNDEF, NULL, << >>, sSpace, sAnn}, ln \in {UNDEF, NULL, << >>, sSpace, sLee}}

\* validation at the boundary: POST requests one after another
NextVal ==
    \/ started < MaxDupRequests /\ \E b \in ValBodies : CreateStart(1, b)
    \/ CreateSteps(1)

SpecVal == Init /\ [][NextVal]_vars

\* POST bodies of the read specification: one record per request, no photo
ReadBodies ==
    {CreateBody(sAnn, sLee, UNDEF, UNDEF, UNDEF, sEngineering, FALSE)}

\* reads among writes: every route, two handlers in flight
NextRead ==
    \E p \in Procs :
        \/ started < MaxRequests /\ \E b \in ReadBodies : CreateStart(p, b)
        \/ CreateSteps(p)
        \/ started < MaxRequests /\ \E eid \in KnownIds : \E b \in UpdateBodies(eid) : UpdateStart(p, b)
        \/ UpdateSteps(p)
        \/ started < MaxRequests /\ \E eid \in KnownIds : DeleteStart(p, eid)
        \/ DeleteFind(p)
        \/ DeleteOne(p)
        \/ started < MaxRequests /\ \E eid \in KnownIds : \E k \in ReadKinds : ReadStart(p, k, eid)
        \/ ListFind(p)
        \/ RenderFind(p)
        \/ RenderProof(p)
        \/ VerifyFind(p)

SpecRead == Init /\ [][NextRead]_vars

\* POST bodies of the bucket specification: two departments, no photo
BucketBodies ==
    {CreateBody(sAnn, sLee, UNDEF, UNDEF, UNDEF, sEngineering, FALSE),
     CreateBody(sAnn, sLee, UNDEF, UNDEF, UNDEF, NULL, FALSE)}

\* POST, PUT and DELETE over two departments and two years, two handlers in flight
NextBucket ==
    \E p \in Procs :
        \/ started < MaxRequests /\ \E b \in BucketBodies : CreateStart(p, b)
        \/ CreateSteps(p)
        \/ started < MaxRequests /\ \E eid \in KnownIds : \E b \in UpdateBodies(eid) : UpdateStart(p, b)
        \/ UpdateSteps(p)
        \/ started < MaxRequests /\ \E eid \in KnownIds : DeleteStart(p, eid)
        \/ DeleteFind(p)
        \/ DeleteOne(p)

SpecBucket == Init /\ [][NextBucket]_vars

\* a service that is new, or whose bucket ART-25-ENG has reached serial 999999
InitSeq == Init \/ InitRoll

\* create requests one after another, none overlapping, no deletes
NextSeq ==
    \/ started < MaxRequests /\ \E b \in BucketBodies : CreateStart(1, b)
    \/ CreateSteps(1)

SpecSeq == InitSeq /\ [][NextSeq]_vars

\* POST bodies of the update duplicate-check specification: no email and no
\* contact, an email with a null contact, the same email in another letter case
ResubBodies ==
    {CreateBody(sAnn, sLee, UNDEF, UNDEF, UNDEF, sEngineering, FALSE),
     CreateBody(sBob, sLee, sMailLower, NULL, UNDEF, sEngineering, FALSE),
     CreateBody(sBob, sLee, sMailUpper, UNDEF, UNDEF, sEngineering, FALSE)}

\* the duplicate check of PUT against stored records: POST and PUT requests one
\* after another
NextResub ==
    \/ started < MaxRequests /\ \E b \in ResubBodies : CreateStart(1, b)
    \/ CreateSteps(1)
    \/ started < MaxRequests /\ \E eid \in KnownIds : \E b \in UpdateBodies(eid) : UpdateStart(1, b)
    \/ UpdateSteps(1)

SpecResub == Init /\ [][NextResub]_vars

\* ------------------------------------------------------------------------
\* The helpers deptCode and checksumDigit on their own
\* ------------------------------------------------------------------------
MaxLen == 3             \* longest argument string drawn from the alphabet
MaxCalls == 2           \* calls of checksumDigit on one argument

\* "ART-25-ENG-000042"
sArt25Eng42 == <<65, 82, 84, 45, 50, 53, 45, 69, 78, 71, 45, 48, 48, 48, 48, 52, 50>>

\* "finance" written with the ligature fi (U+FB01), whose uppercase is "FI"
sFinanceLig == <<64257, 110, 97, 110, 99, 101>>

\* n preceded by apostrophe (U+0149), whose uppercase is U+02BC, "N"
sNApostrophe == <<329>>

\* "engineering!"
sEngineeringBang == <<101, 110, 103, 105, 110, 101, 101, 114, 105, 110, 103, 33>>

\* code units of the arguments: a, B, 1, !, sharp s, e acute
Alphabet == {97, 66, 49, 33, 223, 233}

Strings == UNION {[1..n -> Alphabet] : n \in 0..MaxLen}

\* arguments of the helpers: the strings, "ab", five more examples, null and
\* undefined
PureInputs ==
    Strings \cup {sAb, sEngineering, sEngineeringBang, sArt25Eng42, sFinanceLig,
                  sNApostrophe, NULL, UNDEF}

\* a caller of the helpers: body is the argument, loc the value deptCode
\* returned (NULL before the call), log the values successive calls of
\* checksumDigit returned
InitPure ==
    /\ body \in PureInputs
    /\ loc = NULL
    /\ log = << >>
    /\ store = {}
    /\ now = 0
    /\ nextOid = 1
    /\ started = 0
    /\ pc = "idle"
    /\ op = "none"
    /\ resp = NoResp

\* deptCode(dept)
CallDeptCode ==
    /\ loc = NULL
    /\ loc' = deptCode(body)
    /\ UNCHANGED <<store, now, nextOid, started, pc, op, body, resp, log>>

\* checksumDigit(s), s a string
CallChecksumDigit ==
    /\ body \notin {NULL, UNDEF}
    /\ Len(log) < MaxCalls
    /\ log' = Append(log, checksumDigit(body))
    /\ UNCHANGED <<store, now, nextOid, started, pc, op, body, loc, resp>>

NextPure == CallDeptCode \/ CallChecksumDigit

SpecPure == InitPure /\ [][NextPure]_vars

\* ------------------------------------------------------------------------
\* Identifier fields
\* ------------------------------------------------------------------------
\* the hyphen-delimited segments company, year, department of an identifier
BucketOf(id) == SubSeq(Split(id), 1, 3)
\* the serial of an identifier, as a number
SerialOf(id) == ParseInt(Split(id)[4])

\* a POST handler that holds the identifier generateEmployeeId returned and
\* has not answered yet
HoldsId(p) == op[p] = "create" /\ pc[p] \in {"upload", "save", "proof"}

\* ------------------------------------------------------------------------
\* Properties
\* ------------------------------------------------------------------------
\* C1: after any interleaving of create, update and delete requests, no two
\* stored employee records share the same identifier.
C1_UniqueIdentifier ==
    \A d, e \in store : d.employee_id = e.employee_id => d = e

\* C1 witness: two records are stored, and a concurrent create that computed
\* an identifier already taken was refused by the unique index.
C1_Witness ==
    /\ Cardinality(store) >= 2
    /\ \E p \in Procs : op[p] = "create" /\ pc[p] = "done" /\ resp[p].error = "E11000"

\* C2: two in-flight create requests that have finished generateEmployeeId
\* and have not answered yet never hold the same bucket and serial.
C2_NoSharedSerialInFlight ==
    \A p, q \in Procs :
        (p # q /\ HoldsId(p) /\ HoldsId(q))
            => ~(/\ BucketOf(loc[p].employee_id) = BucketOf(loc[q].employee_id)
                 /\ SerialOf(loc[p].employee_id) = SerialOf(loc[q].employee_id))

\* C3: an identifier that was once persisted is never assigned to a record
\* created later (no serial is reused after a delete).
C3_NoSerialReuse ==
    \A i, j \in 1..Len(log) : i < j => log[i] # log[j]

\* C4: the k-th successful allocation in a bucket receives serial k.
C4_ContiguousSerials ==
    \A i \in 1..Len(log) :
        SerialOf(log[i]) = Cardinality({j \in 1..i : BucketOf(log[j]) = BucketOf(log[i])})

\* the matching rules of the duplicate detector as specified: each rule
\* applies only when the request's own field is non-empty
EmailRule(d, b) ==
    Truthy(b.email) /\ d.email # NULL /\ FoldCase(d.email) = FoldCase(b.email)
ContactRule(d, b) ==
    Truthy(b.contact) /\ d.contact = b.contact
NameDobRule(d, b) ==
    /\ Truthy(b.first_name) /\ Truthy(b.last_name) /\ Truthy(b.dob)
    /\ d.first_name # NULL /\ FoldCase(d.first_name) = FoldCase(b.first_name)
    /\ d.last_name # NULL /\ FoldCase(d.last_name) = FoldCase(b.last_name)
    /\ d.dob = b.dob

\* the duplicate query of create request p resolves in this step
DupCheckStep(p) == op[p] = "create" /\ pc[p] = "dupQuery" /\ pc'[p] # pc[p]

\* C5: a create request is rejected as a duplicate only on a rule whose field
\* is non-empty on the request: never because its empty email, contact or date
\* of birth meets a stored empty or null one.
C5_EmptyFieldsNeverMatch ==
    [][\A p \in Procs :
          (DupCheckStep(p) /\ resp'[p] = RespDuplicate)
              => \E d \in store :
                    EmailRule(d, body[p]) \/ ContactRule(d, body[p]) \/ NameDobRule(d, body[p])]_vars

\* C6: a create request whose non-empty email equals a stored email ignoring
\* letter case is rejected and inserts nothing.
C6_EmailCaseInsensitive ==
    [][\A p \in Procs :
          (DupCheckStep(p) /\ \E d \in store : EmailRule(d, body[p]))
              => (pc'[p] = "done" /\ resp'[p].status # 200 /\ store' = store)]_vars

\* C7: a create request is rejected as a duplicate whenever a stored record has
\* the same first and last name ignoring case and the same date of birth (all
\* three non-empty on the request), or exactly the request's non-empty contact.
\* (When the lookup itself throws there is no verdict: the request fails with
\* the store's error instead.)
C7_NameDobAndContactRejected ==
    [][\A p \in Procs :
          (DupCheckStep(p) /\ \E d \in store : NameDobRule(d, body[p]) \/ ContactRule(d, body[p]))
              => /\ pc'[p] = "done"
                 /\ resp'[p] \in {RespDuplicate, RespCaught("StoreError")}
                 /\ store' = store]_vars

\* C7 witness: a request was rejected as duplicate where the only stored record
\* matches it by name and date of birth alone, the first name in another case.
C7_Witness ==
    \E p \in Procs :
        /\ op[p] = "create" /\ pc[p] = "done" /\ resp[p] = RespDuplicate
        /\ \E d \in store :
              /\ store = {d}
              /\ NameDobRule(d, body[p])
              /\ d.first_name # body[p].first_name
              /\ ~EmailClause(d, body[p]) /\ ~ContactClause(d, body[p])

\* handler slot p takes a new request in this step (it is the lowest free slot)
Starts(p) ==
    /\ started' # started
    /\ pc[p] \in {"idle", "done"}
    /\ \A q \in Procs : q < p => pc[q] \notin {"idle", "done"}

\* handler p, serving a create request, takes a step
CreateStepOf(p) ==
    /\ op'[p] = "create"
    /\ Starts(p) \/ (pc[p] \notin {"idle", "done"} /\ pc'[p] # pc[p])

\* the step in which create request p fails in validation, in the duplicate
\* check, in sequencing, in the photo upload or in the insert
CreateFailsBeforeProof(p) ==
    /\ CreateStepOf(p)
    /\ pc[p] # "proof"
    /\ pc'[p] = "done"
    /\ resp'[p].status # 200

\* C8: a create request that fails in validation, duplicate check, sequencing,
\* photo upload or insert leaves the record store as it was: every such failing
\* step leaves the store unchanged, and the only step of a create request that
\* changes the store is its successful insert, which adds one complete record
\* (the identifier the handler holds, both names, the photo it uploaded).
C8_FailedCreateLeavesStore ==
    [][\A p \in Procs :
          /\ CreateFailsBeforeProof(p) => store' = store
          /\ (CreateStepOf(p) /\ store' # store)
                => /\ pc[p] = "save" /\ pc'[p] = "proof"
                   /\ \E d \in store' :
                         /\ store' = store \cup {d} /\ d \notin store
                         /\ d._id = loc'[p].oid
                         /\ d.employee_id = loc[p].employee_id /\ Truthy(d.employee_id)
                         /\ Truthy(d.first_name) /\ Truthy(d.last_name)
                         /\ d.created_at = loc[p].created_at
                         /\ (body[p].file => Truthy(d.photo_public_id))]_vars

\* C8 witness: an identifier was assigned, the photo upload failed, and no
\* stored record carries that identifier.
C8_Witness ==
    \E p \in Procs :
        /\ op[p] = "create" /\ pc[p] = "done" /\ resp[p] = RespUpload
        /\ Truthy(loc[p].employee_id)
        /\ \A d \in store : d.employee_id # loc[p].employee_id

\* the step in which QR or barcode generation of create request p fails
ProofFails(p) ==
    op[p] = "create" /\ pc[p] = "proof" /\ pc'[p] = "done" /\ resp'[p].status # 200

\* C9: when QR or barcode generation fails after the insert, the inserted
\* record is not rolled back: it stays stored, identifier unchanged.
C9_ProofFailureKeepsRecord ==
    [][\A p \in Procs :
          ProofFails(p) => \A d \in store : d._id = loc[p].oid => d \in store']_vars

\* C9 witness: proof generation failed and the record the request inserted is
\* stored under the identifier the request was given.
C9_Witness ==
    \E p \in Procs :
        /\ op[p] = "create" /\ pc[p] = "done" /\ resp[p].error = "ProofError"
        /\ \E d \in store : d._id = loc[p].oid /\ d.employee_id = loc[p].employee_id

\* what a client can tell responses apart by, the free text of the error aside
Shape(r) == [status |-> r.status, success |-> r.success, hasRecord |-> r.employee_id # NULL]

\* C10: when proof generation fails after a successful insert, the response
\* names the persisted record and differs in shape from the response to an
\* allocation failure that persisted nothing.
C10_PartialSuccessResponse ==
    \A p \in Procs :
        (op[p] = "create" /\ pc[p] = "done" /\ loc[p].oid # 0 /\ resp[p].status # 200)
            => /\ resp[p].employee_id = loc[p].employee_id
               /\ \A e \in {"StoreError", "E11000"} : Shape(resp[p]) # Shape(RespCaught(e))

\* the insert of create request p meets a stored record with the identifier
\* it holds, and the store reports the conflict
InsertConflict(p) ==
    /\ op[p] = "create" /\ pc[p] = "save" /\ pc'[p] # pc[p]
    /\ UniqueViolation(store, loc[p].employee_id)
    /\ resp'[p].error # "StoreError"

\* C11: when the insert of a create request fails on the identifier uniqueness
\* constraint, the allocation is retried with a freshly computed serial: the
\* conflict of a first attempt is not answered to the caller.
C11_ConflictRetried ==
    [][\A p \in Procs : InsertConflict(p) => pc'[p] # "done"]_vars

\* the sequencer's lookup of create request p resolves or rejects in this step
SeqLookupStep(p) == op[p] = "create" /\ pc[p] = "idQuery" /\ pc'[p] # pc[p]

\* C12: when the sequencer's store lookup fails the create request fails,
\* holds no identifier and inserts nothing; and the sequencer returns serial 1
\* only when no stored record matches the bucket.
C12_LookupErrorPropagates ==
    [][\A p \in Procs :
          SeqLookupStep(p) =>
              /\ resp'[p].error = "StoreError"
                    => (pc'[p] = "done" /\ store' = store /\ loc'[p].employee_id = NULL)
              /\ (pc'[p] # "done" /\ SerialOf(loc'[p].employee_id) = 1)
                    => ~\E d \in store : RegexMatch(d.employee_id, loc[p].yy, loc[p].dcode)]_vars

\* C12 witness: the sequencer's lookup failed while the bucket held a record;
\* the request ended with the store's error and without an identifier.
C12_Witness ==
    \E p \in Procs :
        /\ op[p] = "create" /\ pc[p] = "done" /\ resp[p] = RespCaught("StoreError")
        /\ loc[p].yy # << >> /\ loc[p].employee_id = NULL
        /\ \E d \in store : RegexMatch(d.employee_id, loc[p].yy, loc[p].dcode)

\* C13: the identifier of a record is immutable: whatever update requests ran,
\* successful or failed, whatever their bodies carried, every stored record
\* holds the identifier it was inserted with.
C13_IdentifierImmutable ==
    \A d \in store : d._id \in 1..Len(log) /\ d.employee_id = log[d._id]

\* C13 witness: an update that named another department and another
\* employee_id succeeded; the record has the new department and its old
\* identifier.
C13_Witness ==
    \E p \in Procs :
        /\ op[p] = "update" /\ pc[p] = "done" /\ resp[p].status = 200
        /\ body[p].employee_id # loc[p].existing.employee_id
        /\ body[p].dept # loc[p].existing.dept
        /\ \E d \in store :
              /\ d._id = loc[p].existing._id
              /\ d.dept = body[p].dept
              /\ d.employee_id = loc[p].existing.employee_id
              /\ d.employee_id = body[p].eid

IsUpperAZ(c) == c >= 65 /\ c <= 90

\* <CompanyCode>-<YY>-<DeptCode3>-<Serial6>-<Checksum1>
MatchesGrammar(id) ==
    LET parts == Split(id)
    IN  /\ Len(parts) = 5
        /\ parts[1] = COMPANY_CODE
        /\ Len(parts[2]) = 2 /\ \A i \in 1..2 : IsDigit(parts[2][i])
        /\ Len(parts[3]) = 3 /\ \A i \in 1..3 : IsUpperAZ(parts[3][i])
        /\ Len(parts[4]) = 6 /\ \A i \in 1..6 : IsDigit(parts[4][i])
        /\ Len(parts[5]) = 1 /\ IsDigit(parts[5][1])

\* C14: every identifier that create persists matches the grammar
\* <CompanyCode>-<YY>-<DeptCode3>-<Serial6>-<Checksum1> exactly, also in a
\* bucket whose latest serial is 999999.
C14_IdentifierGrammar ==
    \A d \in store : d.employee_id # NULL /\ MatchesGrammar(d.employee_id)

\* the last character of id is checksumDigit of what precedes the last hyphen
ChecksumOk(id) ==
    LET n == Len(id)
    IN  /\ n >= 3
        /\ id[n - 1] = 45
        /\ <<id[n]>> = checksumDigit(SubSeq(id, 1, n - 2))

\* C15: for every stored record the trailing check digit of its identifier
\* equals checksumDigit of the hyphen-joined body that precedes it, after
\* any sequence of create, update and delete requests.
C15_StoredChecksumValid ==
    \A d \in store : d.employee_id # NULL /\ ChecksumOk(d.employee_id)

\* C15 witness: a record that a successful update moved to another department
\* is stored, its check digit right for its unchanged identifier.
C15_Witness ==
    \E p \in Procs :
        /\ op[p] = "update" /\ pc[p] = "done" /\ resp[p].status = 200
        /\ \E d \in store :
              /\ d._id = loc[p].existing._id
              /\ d.dept # loc[p].existing.dept
              /\ MatchesGrammar(d.employee_id)
              /\ ChecksumOk(d.employee_id)

\* record d belongs to the bucket (company code, yy, dcode)
InBucket(d, yy, dcode) ==
    /\ Len(Split(d.employee_id)) = 5
    /\ BucketOf(d.employee_id) = <<COMPANY_CODE, yy, dcode>>

sSerialOne == <<48, 48, 48, 48, 48, 49>>                        \* "000001"
sYY25 == <<50, 53>>                                             \* "25"
\* "ART-25-ENG-000001"
sArt25Eng1 == <<65, 82, 84, 45, 50, 53, 45, 69, 78, 71, 45, 48, 48, 48, 48, 48, 49>>

\* the sequencer of create request p returns an identifier in this step
SeqReturns(p) == SeqLookupStep(p) /\ pc'[p] # "done"

\* C16: for a bucket with no stored record the sequencer returns serial 000001;
\* and the request Ann Lee of Engineering against an empty store in 2025 is
\* given ART-25-ENG-000001-c with c = checksumDigit("ART-25-ENG-000001").
C16_FirstSerial ==
    [][\A p \in Procs :
          SeqReturns(p) =>
              /\ (~\E d \in store : InBucket(d, loc[p].yy, loc[p].dcode))
                    => /\ Len(Split(loc'[p].employee_id)) = 5
                       /\ Split(loc'[p].employee_id)[4] = sSerialOne
              /\ (/\ store = {}
                  /\ body[p].first_name = sAnn /\ body[p].last_name = sLee
                  /\ body[p].dept = sEngineering /\ loc[p].yy = sYY25)
                    => loc'[p].employee_id
                         = Concat(<<sArt25Eng1, Hyphen, checksumDigit(sArt25Eng1)>>)]_vars

\* C16 witness: the first insert ever is the answered request of Ann Lee of
\* Engineering, under ART-25-ENG-000001 and its check digit.
C16_Witness ==
    \E p \in Procs :
        /\ op[p] = "create" /\ pc[p] = "done" /\ resp[p].status = 200
        /\ body[p].first_name = sAnn /\ body[p].dept = sEngineering
        /\ Len(log) = 1
        /\ SubSeq(log[1], 1, Len(sArt25Eng1)) = sArt25Eng1
        /\ resp[p].employee_id = log[1]
        /\ \E d \in store : d.employee_id = log[1]

\* the records of a bucket than which none of the bucket was created later
LatestInBucket(st, yy, dcode) ==
    LET b == {d \in st : InBucket(d, yy, dcode) /\ MatchesGrammar(d.employee_id)}
    IN  {d \in b : \A e \in b : e.created_at <= d.created_at}

\* C17: when the most recently created record of the bucket has serial n, the
\* sequencer returns serial n + 1 as six decimal digits, zero-padded on the
\* left (where several records share the latest creation time, n is the
\* serial of one of them).  Stated for every n: it holds while n < 999999
\* and fails from a bucket at 999999, where padStart(6, "0") leaves the
\* seven digits of 1000000 as they are.
C17_NextSerial ==
    [][\A p \in Procs :
          SeqReturns(p) =>
              LET latest == LatestInBucket(store, loc[p].yy, loc[p].dcode)
                  seg == Split(loc'[p].employee_id)[4]
              IN  latest # {} =>
                      /\ Len(seg) = 6
                      /\ \A i \in 1..6 : IsDigit(seg[i])
                      /\ \E d \in latest : ParseInt(seg) = SerialOf(d.employee_id) + 1]_vars

\* C18: for every department input (empty, null, punctuation, digits, mixed
\* case, non-ASCII letters) deptCode returns exactly 3 characters, each an
\* uppercase Latin letter A-Z.
C18_DeptCodeThreeLetters ==
    loc # NULL => (Len(loc) = 3 /\ \A i \in 1..3 : IsUpperAZ(loc[i]))

\* C18 witness: deptCode was applied to sharp s followed by "!" and returned
\* "SSX".
C18_Witness ==
    body = <<223, 33>> /\ loc = <<83, 83, 88>>

\* the reference normalizer, one character at a time: the uppercase letters
\* A-Z of the uppercased input are collected until three are held
RECURSIVE RefCollect(_, _)
RefCollect(s, acc) ==
    IF Len(acc) >= 3 THEN SubSeq(acc, 1, 3)
    ELSE IF s = << >> THEN acc
    ELSE RefCollect(Tail(s), acc \o SelectSeq(UpperOf(Head(s)), IsUpperAZ))

RefDeptCode(dept) ==
    IF dept \in {NULL, UNDEF, << >>} THEN <<71, 69, 78>>
    ELSE LET got == RefCollect(dept, << >>)
         IN  got \o [i \in 1..(3 - Len(got)) |-> 88]

\* C19: deptCode equals the reference normalizer on every input (uppercase,
\* drop what is not A-Z, keep the first 3, right-pad with X, GEN for empty or
\* null); deptCode(null) = GEN, deptCode("engineering!") = ENG and
\* deptCode("ab") = ABX.
C19_DeptCodeIsReference ==
    loc # NULL =>
        /\ loc = RefDeptCode(body)
        /\ body = NULL => loc = <<71, 69, 78>>
        /\ body = sEngineeringBang => loc = <<69, 78, 71>>
        /\ body = sAb => loc = <<65, 66, 88>>

\* C19 witness: deptCode was applied to "engineering!" and returned ENG.
C19_Witness ==
    body = sEngineeringBang /\ loc = <<69, 78, 71>>

\* C20: checksumDigit of a string is a single character in "0"-"8", and
\* repeated calls on the same string return the same character.
C20_ChecksumRange ==
    \A i \in 1..Len(log) :
        /\ Len(log[i]) = 1
        /\ log[i][1] >= 48 /\ log[i][1] <= 56
        /\ log[i] = log[1]

\* C20 witness: checksumDigit was called twice on "a1" (digit stream 9749,
\* sum 29) and returned "2" both times.
C20_Witness ==
    body = <<97, 49>> /\ log = << <<50>>, <<50>> >>

\* C21 (as stated): checksumDigit applied to "ART-25-ENG-000042" yields the
\* digit 7, so that ART-25-ENG-000042-7 is a valid identifier.
C21_ExampleDigitSeven ==
    body = sArt25Eng42 => \A i \in 1..Len(log) : log[i] = <<55>>

\* C21 (amended): checksumDigit applied to "ART-25-ENG-000042" yields the
\* digit 0 (digit stream 6582844550534569787145484848485250, sum 171), so the
\* valid identifier with that body is ART-25-ENG-000042-0.
C21_ExampleDigitZero ==
    body = sArt25Eng42 => \A i \in 1..Len(log) : log[i] = <<48>>

\* C21 witness: checksumDigit was applied to "ART-25-ENG-000042" and
\* returned "0".
C21_Witness ==
    body = sArt25Eng42 /\ Len(log) >= 1 /\ log[1] = <<48>>

\* white space as String.prototype.trim removes it
IsSpace(c) ==
    c \in {9, 10, 11, 12, 13, 32, 160, 5760, 8232, 8233, 8239, 8287, 12288, 65279}
        \cup (8192..8202)

\* missing, empty, or empty after trimming
IsBlank(v) == ~Truthy(v) \/ \A i \in 1..Len(v) : IsSpace(v[i])

\* C22: a create request whose first or last name is missing, empty, or empty
\* after trimming is rejected with the validation error on arrival: it is
\* never found at the duplicate check, the sequencer or the insert, and no
\* stored record has such a name.
C22_BlankNamesRejected ==
    /\ \A p \in Procs :
          (op[p] = "create" /\ (IsBlank(body[p].first_name) \/ IsBlank(body[p].last_name)))
              => (pc[p] = "done" /\ resp[p] = RespRequired)
    /\ \A d \in store : ~IsBlank(d.first_name) /\ ~IsBlank(d.last_name)

\* create request p was answered with a failure
CreateFailed(p) == op[p] = "create" /\ pc[p] = "done" /\ resp[p].status # 200

\* C23: a failed create request never consumes a serial: a request answered
\* with a failure has inserted no record, so the stored records the sequencer
\* reads, and with them the serial of the next allocation, are what they would
\* be had the request never been made.
C23_FailedCreateConsumesNoSerial ==
    \A p \in Procs : CreateFailed(p) => loc[p].oid = 0

\* C24: validation failures and duplicate rejections of create are answered
\* with status 400; store, sequencing and insert-conflict failures (and a
\* failed upload) with status 500; and no failure is answered as a success:
\* status 200 with success true is sent only when proof generation succeeds.
C24_ErrorClasses ==
    [][\A p \in Procs :
          (CreateStepOf(p) /\ pc'[p] = "done") =>
              /\ resp'[p].success = (resp'[p].status = 200)
              /\ Starts(p) => (resp'[p].status = 400 /\ resp'[p].error = "required")
              /\ (~Starts(p) /\ pc[p] = "dupQuery") =>
                    \/ /\ resp'[p].status = 400 /\ resp'[p].error = "duplicate"
                       /\ \E d \in store : DupMatch(d, body[p])
                    \/ resp'[p].status = 500 /\ resp'[p].error = "StoreError"
              /\ (~Starts(p) /\ pc[p] \in {"idQuery", "upload", "save"}) => resp'[p].status = 500
              /\ (~Starts(p) /\ pc[p] = "save" /\ resp'[p].error = "E11000")
                    => UniqueViolation(store, loc[p].employee_id)
              /\ (~Starts(p) /\ pc[p] = "proof") =>
                    \/ resp'[p].status = 500
                    \/ /\ resp'[p].status = 200
                       /\ resp'[p].employee_id = loc[p].employee_id]_vars

\* C24 witness: one create was refused by the unique index and answered 500,
\* another was rejected as a duplicate and answered 400.
C24_Witness ==
    \E p, q \in Procs :
        /\ op[p] = "create" /\ pc[p] = "done"
        /\ resp[p].error = "E11000" /\ resp[p].status = 500
        /\ op[q] = "create" /\ pc[q] = "done"
        /\ resp[q].error = "duplicate" /\ resp[q].status = 400

\* C25: when a create request is rejected as a duplicate, the error answered
\* names the rule that matched (email, contact, or name+DOB), that rule did
\* match a stored record, and nothing of the stored record is disclosed.
C25_DuplicateNamesRule ==
    \A p \in Procs :
        (op[p] = "create" /\ pc[p] = "done" /\ resp[p].status = 400
            /\ resp[p].error # "required")
            => /\ resp[p].employee_id = NULL
               /\ \/ resp[p].error = "email" /\ \E d \in store : EmailClause(d, body[p])
                  \/ resp[p].error = "contact" /\ \E d \in store : ContactClause(d, body[p])
                  \/ resp[p].error = "name+dob" /\ \E d \in store : NameDobClause(d, body[p])

\* the order of a create execution: arrival (validation), duplicate check,
\* serial assignment, photo upload if any, insert, proof generation; every
\* step may also end the request
CreateOrder ==
    {<<"arrival", "dupQuery">>, <<"dupQuery", "idQuery">>, <<"idQuery", "upload">>,
     <<"idQuery", "save">>, <<"upload", "save">>, <<"save", "proof">>}
        \cup {<<at, "done">> : at \in {"arrival", "dupQuery", "idQuery", "upload", "save", "proof"}}

\* C26: every create execution passes through validation, duplicate check,
\* serial assignment and insert in that order: the sequencer is reached only
\* from a duplicate check that found no conflict, an insert happens only from
\* the insert step of a request that holds an identifier, and proof
\* generation starts only in the step that inserted the record.
C26_StepOrder ==
    [][\A p \in Procs :
          CreateStepOf(p) =>
              /\ <<IF Starts(p) THEN "arrival" ELSE pc[p], pc'[p]>> \in CreateOrder
              /\ pc'[p] = "idQuery" => ~\E d \in store : DupMatch(d, body[p])
              /\ pc'[p] \in {"upload", "save"} => Truthy(loc'[p].employee_id)
              /\ store' # store
                    => (pc[p] = "save" /\ pc'[p] = "proof" /\ Truthy(loc[p].employee_id))
              /\ pc'[p] = "proof"
                    => \E d \in store' :
                          /\ d \notin store /\ store' = store \cup {d}
                          /\ d.employee_id = loc[p].employee_id]_vars

\* C26 witness: a create with a photo went through every step and was
\* answered with the identifier of the record it inserted.
C26_Witness ==
    \E p \in Procs :
        /\ op[p] = "create" /\ pc[p] = "done" /\ resp[p].status = 200
        /\ body[p].file /\ loc[p].photo_public_id = sPid
        /\ \E d \in store : d._id = loc[p].oid /\ d.employee_id = resp[p].employee_id

\* C27: no two stored records share the same non-empty email, and no two
\* share the same non-empty contact, after any interleaving of create
\* requests.
C27_NoSharedEmailOrContact ==
    \A d, e \in store :
        d # e => /\ ~(Truthy(d.email) /\ d.email = e.email)
                 /\ ~(Truthy(d.contact) /\ d.contact = e.contact)

\* the buckets of the allocation specification: every year the clock reaches,
\* every department code its bodies map to
BucketsOfSpec ==
    {<<yyOf(t), deptCode(b.dept)>> : t \in 0..MaxTime, b \in Bodies}

\* C28: in every reachable store state no identifier that generateEmployeeId
\* may compute for a bucket is held by a stored record (the most recently
\* created record of the bucket carries its largest serial).
C28_NextIdentifierFree ==
    \A bk \in BucketsOfSpec :
        \A id \in GeneratedIds(store, bk[1], bk[2]) :
            ~\E d \in store : d.employee_id = id

\* C29: the department code segment of every stored record's identifier is
\* deptCode of the record's current department, after any sequence of create
\* and update requests.
C29_DeptSegmentCurrent ==
    \A d \in store : Split(d.employee_id)[3] = deptCode(d.dept)

\* the duplicate query of update request p resolves in this step
UpdateDupStep(p) == op[p] = "update" /\ pc[p] = "dupQuery" /\ pc'[p] # pc[p]

\* record d conflicts with the update's field values on email, contact or
\* name+DOB
Conflicts(d, b) == EmailRule(d, b) \/ ContactRule(d, b) \/ NameDobRule(d, b)

\* C30: an update is rejected as duplicate, with every stored record unchanged,
\* exactly when a record other than the one being updated conflicts on email,
\* contact or name+DOB; the record itself never counts, so an update that
\* resubmits the record's own stored values is accepted.
C30_UpdateDuplicateExact ==
    [][\A p \in Procs :
          (UpdateDupStep(p) /\ resp'[p] # RespCaught("StoreError"))
              => /\ (resp'[p] = RespDuplicate)
                        <=> \E d \in store : /\ d._id # loc[p].existing._id
                                             /\ Conflicts(d, body[p])
                 /\ resp'[p] = RespDuplicate => store' = store]_vars

\* the sum of the UTF-16 code unit values of a string
RECURSIVE CodeSum(_)
CodeSum(s) == IF s = << >> THEN 0 ELSE Head(s) + CodeSum(Tail(s))

\* C34: for every string s, checksumDigit(s) is the sum of the code unit values
\* of s reduced modulo 9, written as one decimal digit.
C34_ChecksumIsCodeSumMod9 ==
    \A i \in 1..Len(log) : log[i] = ToDecimal(CodeSum(body) % 9)

\* C34 witness: checksumDigit was applied to sharp s, e acute (codes 223 and
\* 233, digit stream 223233 with digit sum 15, code sum 456) and returned "6".
C34_Witness ==
    body = <<223, 233>> /\ log = << <<54>> >>

\* handler p takes a step
Acts(p) == pc'[p] # pc[p]

\* the lookup of update or delete request p resolves in this step and no
\* stored record has the identifier the request names
LookupMisses(p) ==
    /\ \/ op[p] = "update" /\ pc[p] = "findExisting"
       \/ op[p] = "delete" /\ pc[p] = "findRow"
    /\ Acts(p)
    /\ ~\E d \in store : d.employee_id = body[p].eid

\* delete request p is answered with success in this step
DeleteSucceeds(p) ==
    op[p] = "delete" /\ Acts(p) /\ resp'[p] = RespDeleted

\* C32: no step of a read endpoint changes the record store; an update or
\* delete naming an identifier that is not stored answers 404 (unless the
\* lookup itself fails) and leaves the store unchanged; a successful delete
\* removes the record with the named identifier and no other.
C32_ReadsAndMissesKeepStore ==
    [][\A p \in Procs :
          /\ (Acts(p) /\ op'[p] \in ReadKinds) => store' = store
          /\ LookupMisses(p)
                => /\ store' = store
                   /\ pc'[p] = "done"
                   /\ resp'[p] \in {RespNotFound, RespCaught("StoreError")}
          /\ DeleteSucceeds(p)
                => /\ store' = {d \in store : d.employee_id # body[p].eid}
                   /\ Cardinality(store \ store') <= 1]_vars

\* C32 witness: a delete was answered with success while an update naming the
\* same identifier, its lookup coming after the removal, was answered 404.
C32_Witness ==
    /\ op[1] = "delete" /\ pc[1] = "done" /\ resp[1] = RespDeleted
    /\ op[2] = "update" /\ pc[2] = "done" /\ resp[2] = RespNotFound
    /\ body[2].eid = body[1].eid

\* the buckets of the bucket specification: every year the clock reaches, the
\* department codes of its bodies
BucketsOfBucketSpec ==
    {<<yyOf(t), deptCode(dp)>> : t \in 0..MaxTime, dp \in {sEngineering, NULL}}

\* the serials the next allocation in bucket (yy, dcode) may receive against
\* store st
NextSerials(st, yy, dcode) ==
    IF FindLatest(st, yy, dcode) = {}
    THEN {1}
    ELSE {LastSerial(last.employee_id) + 1 : last \in FindLatest(st, yy, dcode)}

\* the buckets (by identifier) of the records a step adds to or removes from
\* the store; an update adds and removes none
TouchedBuckets(st, st2) ==
    LET ids(x) == {d.employee_id : d \in x}
        moved == (ids(st) \ ids(st2)) \cup (ids(st2) \ ids(st))
    IN  {<<Split(id)[2], Split(id)[3]>> : id \in moved}

\* C31: sequencing is scoped to the bucket: a step that creates, updates or
\* deletes a record of one bucket leaves the serial that the next allocation
\* in every other bucket (other department code or other two-digit year)
\* receives as it was.
C31_SequencingScopedToBucket ==
    [][store' # store
          => \A bk \in BucketsOfBucketSpec \ TouchedBuckets(store, store') :
                NextSerials(store', bk[1], bk[2]) = NextSerials(store, bk[1], bk[2])]_vars

\* C31 witness: bucket 25/ENG holds serials 1 and 2, and the record created
\* after both, in bucket 25/GEN, was given serial 1.
C31_Witness ==
    \E d, e, g \in store :
        /\ BucketOf(d.employee_id) = <<COMPANY_CODE, sYY25, <<69, 78, 71>> >>
        /\ BucketOf(e.employee_id) = BucketOf(d.employee_id)
        /\ SerialOf(d.employee_id) = 1 /\ SerialOf(e.employee_id) = 2
        /\ BucketOf(g.employee_id) = <<COMPANY_CODE, sYY25, <<71, 69, 78>> >>
        /\ SerialOf(g.employee_id) = 1
        /\ g._id > d._id /\ g._id > e._id

\* the sequencer query of create request p resolves in this step and the
\* handler goes on with an identifier
SeqAssigns(p) ==
    op[p] = "create" /\ pc[p] = "idQuery" /\ pc'[p] \notin {"idQuery", "done"}

\* C33: over non-overlapping create requests with no deletes, the identifier
\* the MongoDB sequencer (latest by created_at, anchored pattern) assigns to a
\* request is the one the SQLite sequencer (latest by row id, LIKE prefix)
\* assigns against the same records.
C33_SequencersAgree ==
    [][\A p \in Procs :
          SeqAssigns(p)
              => loc'[p].employee_id = GeneratedIdSql(store, loc[p].yy, loc[p].dcode)]_vars
====
